---------------------------- MODULE Spec2Model ----------------------------
(***************************************************************************)
(* Safety scoring and zone classification of the tourist-safety server.   *)
(*                                                                         *)
(*   client/src/lib/safetyZones.ts     getSafetyZone and its anchor tables *)
(*   server/SafetyScoringService.ts    computeScore, the score cache and   *)
(*                                     the recompute sweep                 *)
(*                                                                         *)
(* Numbers.  The source computes in IEEE doubles; the model computes in    *)
(* fixed point inside the 32-bit integers of TLC:                          *)
(*   coordinates     1e-4 degree   (26.1445 deg  = 261445)                 *)
(*   angles          1e-6 radian                                           *)
(*   sin, cos, tan   1e-6                                                  *)
(*   distances       metre         (10 km = 10000)                         *)
(*   normalised factors, risks, raw signals   1e-3   (0.7 = 700)           *)
(*   scores          1e-3 point    (20 = 20000)                            *)
(* The haversine distance below agrees with the double computation to      *)
(* within 5 m under 25 km, within 40 m under 60 km and to 0.1 % beyond.    *)
(* NaN is a value of its own: every arithmetic operation on it gives NaN   *)
(* and every comparison with it is false, as in the source language.       *)
(*                                                                         *)
(* Time.  The clock counts minutes since the epoch.  An invocation of      *)
(* updateAllZoneScores takes one step per resolved await: the zone listing *)
(* and, for each zone, the queries of calculateSafetyInputs; invocations   *)
(* interleave between these steps.                                         *)
(***************************************************************************)
EXTENDS Integers, Sequences, FiniteSets, TLC

NaN == -2000000000

IsNaN(x) == x = NaN

\* x < y, x > y of the source language: false when an operand is NaN
Lt(x, y) == ~IsNaN(x) /\ ~IsNaN(y) /\ x < y
Gt(x, y) == ~IsNaN(x) /\ ~IsNaN(y) /\ x > y

Abs(x) == IF x < 0 THEN -x ELSE x

MinOfSet(S) == CHOOSE m \in S : \A n \in S : m <= n

(***************************************************************************)
(* Fixed-point arithmetic                                                  *)
(***************************************************************************)

\* x * y / 1e6 for 0 <= x <= 1e6 and 0 <= y < 2^31, without overflow
MulFix(x, y) ==
  LET xh == x \div 1000
      xl == x % 1000
      yh == y \div 1000
      yl == y % 1000
  IN  xh * yh + (xh * yl + xl * yh) \div 1000 + (xl * yl) \div 1000000

\* y * 1e6 / x for 0 <= y <= x, x > 0
DivFix(y, x) ==
  LET n == y * 1000
  IN  (n \div x) * 1000 + ((n % x) * 1000) \div x

\* s * s / 1000 for 0 <= s <= 1e6
SqFix(s) ==
  LET sh == s \div 1000
      sl == s % 1000
  IN  sh * sh * 1000 + 2 * sh * sl + (sl * sl) \div 1000

RECURSIVE ISqrtIter(_, _, _)
ISqrtIter(n, lo, hi) ==
  IF lo >= hi THEN lo
  ELSE LET mid == (lo + hi + 1) \div 2
       IN  IF mid * mid <= n THEN ISqrtIter(n, mid, hi)
                             ELSE ISqrtIter(n, lo, mid - 1)

\* Math.sqrt on integers: the largest r with r * r <= n
ISqrt(n) == IF n <= 0 THEN 0 ELSE ISqrtIter(n, 0, 46340)

\* Math.sqrt of a value held at scale 1e9, result at scale 1e6
SqrtFix(a) ==
  IF a <= 0 THEN 0
  ELSE IF a <= 2000000 THEN ISqrt(a * 1000)
  ELSE IF a <= 200000000 THEN 10 * ISqrt(a * 10)
  ELSE 100 * ISqrt(a \div 10)

\* Math.sin for 0 <= x <= 1.2 rad
SinPos(x) ==
  LET h  == x \div 100
      x2 == (h * h) \div 100
      x3 == ((x \div 1000) * x2) \div 1000
      x5 == ((x3 \div 100) * (x2 \div 100)) \div 100
      x7 == ((x5 \div 100) * (x2 \div 100)) \div 100
  IN  x - x3 \div 6 + x5 \div 120 - x7 \div 5040

Sin(x) == IF x < 0 THEN -SinPos(-x) ELSE SinPos(x)

\* Math.cos for |x| <= 1.2 rad
Cos(x) ==
  LET h  == Abs(x) \div 100
      x2 == (h * h) \div 100
      x4 == ((x2 \div 100) * (x2 \div 100)) \div 100
      x6 == ((x4 \div 100) * (x2 \div 100)) \div 100
      x8 == ((x6 \div 100) * (x2 \div 100)) \div 100
  IN  1000000 - x2 \div 2 + x4 \div 24 - x6 \div 720 + x8 \div 40320

\* arctangent series for 0 <= t <= tan(pi/8)
AtanSeries(t) ==
  LET t2 == MulFix(t, t)
      t3 == MulFix(t2, t)
      t5 == MulFix(t3, t2)
      t7 == MulFix(t5, t2)
      t9 == MulFix(t7, t2)
  IN  t - t3 \div 3 + t5 \div 5 - t7 \div 7 + t9 \div 9

\* arctangent for 0 <= t <= 1
AtanUnit(t) ==
  IF t <= 414214 THEN AtanSeries(t)
  ELSE 785398 - AtanSeries(DivFix(1000000 - t, 1000000 + t))

\* Math.atan2(y, x) for y >= 0, x >= 0
Atan2(y, x) ==
  IF y = 0 THEN 0
  ELSE IF y <= x THEN AtanUnit(DivFix(y, x))
  ELSE 1570796 - AtanUnit(DivFix(x, y))

\* deg * (Math.PI / 180): 1e-4 degree to 1e-6 radian
deg2rad(deg) ==
  LET m == Abs(deg)
      r == (m * 1745) \div 1000 + (m * 33) \div 100000
  IN  IF deg < 0 THEN -r ELSE r

\* angle / 2, rounding toward zero
Half(x) == IF x < 0 THEN -((-x) \div 2) ELSE x \div 2

\* Earth's radius in kilometres
R == 6371

\* The haversine formula at fine resolution, for two points whose latitudes
\* and longitudes each differ by at most 0.35 degree: half-angles, sines and
\* the tangent are held at scale 1e-7 and the haversine term a at 1e-14.
HaversineNear(lat1, lon1, lat2, lon2) ==
  LET hLat == (Abs(lat2 - lat1) * 8726) \div 1000 + (Abs(lat2 - lat1) * 646) \div 1000000
      hLon == (Abs(lon2 - lon1) * 8726) \div 1000 + (Abs(lon2 - lon1) * 646) \div 1000000
      sLat == hLat - (((hLat * hLat) \div 10000000) * hLat) \div 60000000
      sLon == hLon - (((hLon * hLon) \div 10000000) * hLon) \div 60000000
      cc   == MulFix(Cos(deg2rad(lat1)), Cos(deg2rad(lat2)))
      a14  == sLat * sLat + MulFix(cc, sLon * sLon)
      t    == DivFix(ISqrt(a14), SqrtFix(1000000000 - a14 \div 100000))
      c    == 2 * (t - (((t * t) \div 10000000) * t) \div 30000000)
  IN  (R * c) \div 10000

\* The haversine formula for any two points with latitudes in 0..30 degrees:
\* angles and sines at scale 1e-6, the haversine term a at 1e-9.
HaversineFar(lat1, lon1, lat2, lon2) ==
  LET dLat  == deg2rad(lat2 - lat1)
      dLon  == deg2rad(lon2 - lon1)
      sLat  == Abs(Sin(Half(dLat)))
      sLon  == Abs(Sin(Half(dLon)))
      cc    == MulFix(Cos(deg2rad(lat1)), Cos(deg2rad(lat2)))
      a9raw == SqFix(sLat) + MulFix(cc, SqFix(sLon))
      a9    == IF a9raw > 1000000000 THEN 1000000000 ELSE a9raw
      c     == 2 * Atan2(SqrtFix(a9), SqrtFix(1000000000 - a9))
  IN  (c \div 1000) * R + ((c % 1000) * R) \div 1000

\* R * 2 * atan2(sqrt(a), sqrt(1 - a)) in metres, for points in 1e-4 degree
Haversine(lat1, lon1, lat2, lon2) ==
  IF Abs(lat2 - lat1) <= 3500 /\ Abs(lon2 - lon1) <= 3500
  THEN HaversineNear(lat1, lon1, lat2, lon2)
  ELSE HaversineFar(lat1, lon1, lat2, lon2)


(***************************************************************************)
(* State                                                                   *)
(***************************************************************************)
VARIABLES
  zoneQuery,      \* the (lat, lng) passed to getSafetyZone
  zoneResult,     \* what getSafetyZone returned for it, NoResult before it returns
  scoreIn,        \* the SafetyInput passed to computeScore
  scoreOut,       \* the ComputedSafetyScore it returned, NoScore before it returns
  now,            \* the wall clock, in minutes since the epoch
  db,             \* the database: the index of its current content in DbContents
  scoreCache,     \* SafetyScoringService.scoreCache: zone id -> ComputedSafetyScore
  lastCacheUpdate,\* SafetyScoringService.lastCacheUpdate, in minutes since the epoch
  intervals,      \* the number of setInterval timers startAutoUpdate has registered
  runs,           \* the invocations of updateAllZoneScores, in the order they were made
  writer,         \* history: zone id -> the invocation that wrote its cache entry (0: none)
  scoreRead,      \* the zone id last passed to getZoneScore and what it returned
  zoneLog,        \* history: (lat, lng) -> what getSafetyZone returned for it before
  adjustIn,       \* the arguments passed to an adjustSafetyScoreFor... function
  adjustOut,      \* the score it returned, NoAdjust before it returns
  decayIn,        \* the arguments passed to applyTimeDecay or applySpatialDecay
  decayOut,       \* the value it returned, NoDecay before it returns
  probeIn,        \* the arguments of a scoring function applied on its own
  probeOut,       \* what it returned, NoProbe before it returns
  alerts,         \* panic alert id -> its row in the database
  timers,         \* panic alert id -> where its request and its auto-resolve callback stand
  locations,      \* the rows of tourist_locations added by /api/updateLocation
  clients,        \* WebSocket client -> its readyState, authentication and role
  inbox           \* history: WebSocket client -> the messages sent to it

zoneVars == <<zoneQuery, zoneResult>>
scoreVars == <<scoreIn, scoreOut>>
serviceVars == <<now, db, scoreCache, lastCacheUpdate, intervals, runs, writer>>
adjustVars == <<adjustIn, adjustOut>>
decayVars == <<decayIn, decayOut>>
\* the arguments and results of the functions called on their own
probeVars == <<probeIn, probeOut>>
callVars == <<zoneVars, zoneLog, scoreVars, adjustVars, decayVars, probeVars>>
\* the state of server/routes.ts
routeVars == <<alerts, timers, locations, clients, inbox>>

\* before any call of getZoneScore, of getSafetyZone in a sequence of calls, of
\* an adjustment or of a decay
NoRead == [zoneId |-> "", result |-> [category |-> "none"]]
NoLog == [p \in {} |-> 0]
NoAdjustIn == [fn |-> "none"]
NoAdjust == [score |-> -1]
NoDecayIn == [fn |-> "none"]
NoDecay == [value |-> -1]
ReadIdle == scoreRead = NoRead
LogIdle == zoneLog = NoLog
AdjustIdle == adjustIn = NoAdjustIn /\ adjustOut = NoAdjust
DecayIdle == decayIn = NoDecayIn /\ decayOut = NoDecay
NoProbeIn == [fn |-> "none"]
NoProbe == [fn |-> "none"]
ProbeIdle == probeIn = NoProbeIn /\ probeOut = NoProbe

\* the panic alerts and the WebSocket connections the routes are followed for
MaxAlerts == 1
MaxClients == 1
MaxLocations == 1
AlertIds == 1..MaxAlerts
ClientIds == 1..MaxClients

\* an alert that has not been raised, a timer that has not been set, and a
\* connection that has not been made
NoAlert == [status |-> "none", respondedBy |-> "none", touristId |-> "none",
            latitude |-> 0, longitude |-> 0]
NoTimer == [pc |-> "unset", seen |-> "none"]
NoClient == [readyState |-> "none", isAuthenticated |-> FALSE, userRole |-> "undefined",
             pc |-> "none", user |-> "none"]
RouteIdle ==
  /\ alerts = [a \in AlertIds |-> NoAlert]
  /\ timers = [a \in AlertIds |-> NoTimer]
  /\ locations = <<>>
  /\ clients = [c \in ClientIds |-> NoClient]
  /\ inbox = [c \in ClientIds |-> {}]

(***************************************************************************)
(* client/src/lib/safetyZones.ts                                           *)
(***************************************************************************)

\* Northeast India coordinate boundaries: 23N-29N, 88E-97E
NORTHEAST_BOUNDS == [north |-> 290000, south |-> 230000, east |-> 970000, west |-> 880000]

\* Major cities and tourist destinations, in declaration order
NORTHEAST_CITIES == <<
  [name |-> "Guwahati", lat |-> 261445, lng |-> 917362, state |-> "Assam"],
  [name |-> "Shillong", lat |-> 255788, lng |-> 918933, state |-> "Meghalaya"],
  [name |-> "Itanagar", lat |-> 270844, lng |-> 936053, state |-> "Arunachal Pradesh"],
  [name |-> "Kohima", lat |-> 256751, lng |-> 941086, state |-> "Nagaland"],
  [name |-> "Imphal", lat |-> 248170, lng |-> 939368, state |-> "Manipur"],
  [name |-> "Aizawl", lat |-> 237307, lng |-> 927173, state |-> "Mizoram"],
  [name |-> "Agartala", lat |-> 238315, lng |-> 912868, state |-> "Tripura"],
  [name |-> "Gangtok", lat |-> 273389, lng |-> 886065, state |-> "Sikkim"],
  [name |-> "Tezpur", lat |-> 266344, lng |-> 927933, state |-> "Assam"],
  [name |-> "Dibrugarh", lat |-> 274728, lng |-> 949120, state |-> "Assam"],
  [name |-> "Silchar", lat |-> 248333, lng |-> 927789, state |-> "Assam"],
  [name |-> "Cherrapunji", lat |-> 252747, lng |-> 917323, state |-> "Meghalaya"],
  [name |-> "Dawki", lat |-> 251167, lng |-> 917667, state |-> "Meghalaya"],
  [name |-> "Tawang", lat |-> 275859, lng |-> 918716, state |-> "Arunachal Pradesh"],
  [name |-> "Mokokchung", lat |-> 263226, lng |-> 945251, state |-> "Nagaland"],
  [name |-> "Loktak Lake", lat |-> 245500, lng |-> 937833, state |-> "Manipur"],
  [name |-> "Lunglei", lat |-> 228879, lng |-> 927345, state |-> "Mizoram"],
  [name |-> "Udaipur", lat |-> 235331, lng |-> 914865, state |-> "Tripura"],
  [name |-> "Pelling", lat |-> 272152, lng |-> 882426, state |-> "Sikkim"],
  [name |-> "Namchi", lat |-> 271651, lng |-> 883644, state |-> "Sikkim"]
>>

\* Forest reserves and national parks, in declaration order
FOREST_ZONES == <<
  [name |-> "Kaziranga National Park", state |-> "Assam", lat |-> 265775, lng |-> 931717,
   description |-> "UNESCO World Heritage Site, home to one-horned rhinoceros"],
  [name |-> "Manas National Park", state |-> "Assam", lat |-> 267044, lng |-> 909127,
   description |-> "UNESCO World Heritage Site and Tiger Reserve"],
  [name |-> "Nameri National Park", state |-> "Assam", lat |-> 269333, lng |-> 928500,
   description |-> "Tiger Reserve with diverse wildlife"],
  [name |-> "Dibru-Saikhowa National Park", state |-> "Assam", lat |-> 275833, lng |-> 951833,
   description |-> "Wetland ecosystem with feral horses"],
  [name |-> "Balphakram National Park", state |-> "Meghalaya", lat |-> 252000, lng |-> 909333,
   description |-> "Land of perpetual winds"],
  [name |-> "Nokrek National Park", state |-> "Meghalaya", lat |-> 255000, lng |-> 902000,
   description |-> "Biosphere reserve with wild citrus fruits"],
  [name |-> "Namdapha National Park", state |-> "Arunachal Pradesh", lat |-> 275000, lng |-> 963500,
   description |-> "Largest protected area in Northeast India"],
  [name |-> "Mouling National Park", state |-> "Arunachal Pradesh", lat |-> 283000, lng |-> 951500,
   description |-> "Important bird area with rare species"],
  [name |-> "Intanki National Park", state |-> "Nagaland", lat |-> 255667, lng |-> 939833,
   description |-> "Hornbill habitat and tribal conservation area"],
  [name |-> "Keibul Lamjao National Park", state |-> "Manipur", lat |-> 245167, lng |-> 938167,
   description |-> "Floating national park, home to Sangai deer"],
  [name |-> "Murlen National Park", state |-> "Mizoram", lat |-> 237000, lng |-> 932833,
   description |-> "Montane forest ecosystem"],
  [name |-> "Phawngpui Blue Mountain National Park", state |-> "Mizoram", lat |-> 226167, lng |-> 930167,
   description |-> "Highest peak in Mizoram"],
  [name |-> "Clouded Leopard National Park", state |-> "Tripura", lat |-> 238000, lng |-> 914167,
   description |-> "Home to clouded leopards and primates"],
  [name |-> "Bison National Park", state |-> "Tripura", lat |-> 237500, lng |-> 914500,
   description |-> "Gaur (Indian bison) habitat"],
  [name |-> "Khangchendzonga National Park", state |-> "Sikkim", lat |-> 277000, lng |-> 881500,
   description |-> "UNESCO World Heritage Site around Mt. Kanchenjunga"]
>>

\* Border areas and restricted zones, in declaration order
RESTRICTED_ZONES == <<
  [name |-> "China Border - Arunachal Pradesh", state |-> "Arunachal Pradesh", lat |-> 282180, lng |-> 947278,
   description |-> "International border area requiring special permits"],
  [name |-> "China Border - Sikkim", state |-> "Sikkim", lat |-> 273914, lng |-> 888414,
   description |-> "Nathu La Pass and surrounding border areas"],
  [name |-> "Myanmar Border - Nagaland", state |-> "Nagaland", lat |-> 261584, lng |-> 951376,
   description |-> "International border with Myanmar"],
  [name |-> "Myanmar Border - Manipur", state |-> "Manipur", lat |-> 244825, lng |-> 941086,
   description |-> "Moreh border crossing and surrounding areas"],
  [name |-> "Myanmar Border - Mizoram", state |-> "Mizoram", lat |-> 231645, lng |-> 932990,
   description |-> "International border with Myanmar"],
  [name |-> "Bangladesh Border - Meghalaya", state |-> "Meghalaya", lat |-> 251167, lng |-> 917667,
   description |-> "Dawki border and surrounding areas"],
  [name |-> "Bangladesh Border - Tripura", state |-> "Tripura", lat |-> 238315, lng |-> 912868,
   description |-> "Agartala border and surrounding areas"],
  [name |-> "Bangladesh Border - Assam", state |-> "Assam", lat |-> 248000, lng |-> 899000,
   description |-> "International border areas"]
>>

\* Calculate distance between two coordinates (Haversine formula), in metres
calculateDistance(lat1, lon1, lat2, lon2) ==
  IF IsNaN(lat1) \/ IsNaN(lon1) \/ IsNaN(lat2) \/ IsNaN(lon2) THEN NaN
  ELSE Haversine(lat1, lon1, lat2, lon2)

\* the bounds test of getSafetyZone
OutsideBoundsMut(lat, lng) ==
  Gt(lat, NORTHEAST_BOUNDS.north) \/
  Lt(lng, NORTHEAST_BOUNDS.west) \/ Gt(lng, NORTHEAST_BOUNDS.east)

OutsideBounds(lat, lng) ==
  Lt(lat, NORTHEAST_BOUNDS.south) \/ Gt(lat, NORTHEAST_BOUNDS.north) \/
  Lt(lng, NORTHEAST_BOUNDS.west) \/ Gt(lng, NORTHEAST_BOUNDS.east)

\* the indices of the anchors of a table that lie closer than km kilometres
AnchorsWithin(table, lat, lng, km) ==
  {i \in DOMAIN table :
     Lt(calculateDistance(lat, lng, table[i].lat, table[i].lng), km * 1000)}

\* Math.min(...distances to every city)
NearestCityDistance(lat, lng) ==
  LET ds == {calculateDistance(lat, lng, NORTHEAST_CITIES[i].lat, NORTHEAST_CITIES[i].lng) :
               i \in DOMAIN NORTHEAST_CITIES}
  IN  IF NaN \in ds THEN NaN ELSE MinOfSet(ds)

RestrictedResult(zone) ==
  [zoneType |-> "restricted", score |-> 20, reason |-> <<zone.description>>]

\* a forest rule with a score of its own
ForestResultMut(forest) ==
  [zoneType |-> "forest", score |-> 50,
   reason |-> <<"Near ", forest.name, " - ", forest.description>>]

ForestResult(forest) ==
  [zoneType |-> "forest", score |-> 60,
   reason |-> <<"Near ", forest.name, " - ", forest.description>>]

\* a city rule that scores like the rural rule
CityResultMut(city) ==
  [zoneType |-> "safe", score |-> 70,
   reason |-> <<"Near ", city.name, ", ", city.state, " - Tourist-friendly area">>]

CityResult(city) ==
  [zoneType |-> "safe", score |-> 90,
   reason |-> <<"Near ", city.name, ", ", city.state, " - Tourist-friendly area">>]

\* the rules of getSafetyZone after the bounds test, with the city rule first
ClassifyInsideMut(lat, lng) ==
  LET restricted == AnchorsWithin(RESTRICTED_ZONES, lat, lng, 10)
      forests    == AnchorsWithin(FOREST_ZONES, lat, lng, 5)
      cities     == AnchorsWithin(NORTHEAST_CITIES, lat, lng, 20)
  IN  IF cities # {} THEN CityResult(NORTHEAST_CITIES[MinOfSet(cities)])
      ELSE IF restricted # {} THEN RestrictedResult(RESTRICTED_ZONES[MinOfSet(restricted)])
      ELSE IF forests # {} THEN ForestResult(FOREST_ZONES[MinOfSet(forests)])
      ELSE IF Lt(NearestCityDistance(lat, lng), 50 * 1000)
           THEN [zoneType |-> "moderate", score |-> 70,
                 reason |-> <<"Rural area with moderate infrastructure">>]
      ELSE [zoneType |-> "unsafe", score |-> 40,
            reason |-> <<"Remote area with limited infrastructure and connectivity">>]

\* the rules of getSafetyZone after the bounds test: each loop returns at the
\* first anchor, in declaration order, that is within its buffer
ClassifyInside(lat, lng) ==
  LET restricted == AnchorsWithin(RESTRICTED_ZONES, lat, lng, 10)
      forests    == AnchorsWithin(FOREST_ZONES, lat, lng, 5)
      cities     == AnchorsWithin(NORTHEAST_CITIES, lat, lng, 20)
  IN  IF restricted # {} THEN RestrictedResult(RESTRICTED_ZONES[MinOfSet(restricted)])
      ELSE IF forests # {} THEN ForestResult(FOREST_ZONES[MinOfSet(forests)])
      ELSE IF cities # {} THEN CityResult(NORTHEAST_CITIES[MinOfSet(cities)])
      ELSE IF Lt(NearestCityDistance(lat, lng), 50 * 1000)
           THEN [zoneType |-> "moderate", score |-> 70,
                 reason |-> <<"Rural area with moderate infrastructure">>]
      ELSE [zoneType |-> "unsafe", score |-> 40,
            reason |-> <<"Remote area with limited infrastructure and connectivity">>]

\* Function to determine safety zone based on coordinates
NoResult == [zoneType |-> "none", score |-> -1, reason |-> <<>>]

\* a getSafetyZone that keeps the result of the previous call and returns it
\* again while the latitude stays the same
getSafetyZoneMut(lat, lng) ==
  IF zoneResult # NoResult /\ zoneQuery[1] = lat THEN zoneResult
  ELSE IF OutsideBounds(lat, lng)
  THEN [zoneType |-> "restricted", score |-> 0,
        reason |-> <<"Outside Northeast India jurisdiction">>]
  ELSE ClassifyInside(lat, lng)

getSafetyZone(lat, lng) ==
  IF OutsideBounds(lat, lng)
  THEN [zoneType |-> "restricted", score |-> 0,
        reason |-> <<"Outside Northeast India jurisdiction">>]
  ELSE ClassifyInside(lat, lng)

(***************************************************************************)
(* The coordinates getSafetyZone is applied to                             *)
(***************************************************************************)
GridLatSteps == 7
GridLngSteps == 10

AnchorPoints ==
  {<<NORTHEAST_CITIES[i].lat, NORTHEAST_CITIES[i].lng>> : i \in DOMAIN NORTHEAST_CITIES} \cup
  {<<FOREST_ZONES[i].lat, FOREST_ZONES[i].lng>> : i \in DOMAIN FOREST_ZONES} \cup
  {<<RESTRICTED_ZONES[i].lat, RESTRICTED_ZONES[i].lng>> : i \in DOMAIN RESTRICTED_ZONES}

\* displacements from an anchor: none, 6.7 km north, about 15 km east, 33 km north
AnchorOffsets == {<<0, 0>>, <<600, 0>>, <<0, 1500>>, <<3000, 0>>}

\* a one-degree grid from (22.5, 87.5), reaching past every side of the bounds
GridPoints ==
  {<<225000 + 10000 * i, 875000 + 10000 * j>> : i \in 0..GridLatSteps, j \in 0..GridLngSteps}

\* the corners and edges of the bounds, the examples of the documentation,
\* a point inside both a border buffer and a forest buffer, coordinates that
\* are no latitude or no longitude, and NaN
ExtraPoints ==
  {<<0, 0>>, <<285000, 940000>>, <<238100, 913750>>,
   <<230000, 880000>>, <<290000, 970000>>, <<229999, 927345>>, <<290001, 947278>>,
   <<251167, 879999>>, <<251167, 970001>>,
   <<910000, 917362>>, <<261445, -1810000>>,
   <<NaN, 917362>>, <<261445, NaN>>, <<NaN, NaN>>}

ZonePoints ==
  {<<p[1] + o[1], p[2] + o[2]>> : p \in AnchorPoints, o \in AnchorOffsets} \cup
  GridPoints \cup ExtraPoints

ZoneIdle == zoneQuery = <<0, 0>> /\ zoneResult = NoResult

\* a caller (useSafetyScore, the map) has a coordinate and getSafetyZone
\* returns its classification
Classify ==
  /\ zoneResult = NoResult
  /\ zoneResult' = getSafetyZone(zoneQuery[1], zoneQuery[2])
  /\ UNCHANGED <<zoneQuery, zoneLog, scoreVars, adjustVars, decayVars, serviceVars, scoreRead,
               probeVars, routeVars>>

(***************************************************************************)
(* server/SafetyScoringService.ts: the score of one zone                   *)
(***************************************************************************)

\* Configuration for safety scoring weights (weights at scale 1e-3)
SCORING_CONFIG ==
  [weights    |-> [incidents |-> 300, news |-> 200, policeProximity |-> 200,
                   density |-> 150, terrain |-> 100, timeOfDay |-> 50],
   decay      |-> [timeDecayHours |-> 24, spatialDecayKm |-> 5],
   thresholds |-> [safe |-> 20, moderate |-> 50, unsafe |-> 80]]

Max(a, b) == IF a > b THEN a ELSE b
Min(a, b) == IF a < b THEN a ELSE b

\* Normalize a value to 0-1 range (value, min and max in one unit, result at 1e-3)
normalize(value, min, max) ==
  IF max = min THEN 500
  ELSE Max(0, Min(1000, ((value - min) * 1000) \div (max - min)))

\* the clamp of computeScore, absent
ClampScoreMut(score) == score

\* Clamp score to 0-100
ClampScore(score) == Max(0, Min(100000, score))

\* the category of computeScore with the first boundary exclusive
CategoryOfMut(finalScore) ==
  IF finalScore < SCORING_CONFIG.thresholds.safe * 1000 THEN "safe"
  ELSE IF finalScore <= SCORING_CONFIG.thresholds.moderate * 1000 THEN "moderate"
  ELSE "unsafe"

\* Determine category
CategoryOf(finalScore) ==
  IF finalScore <= SCORING_CONFIG.thresholds.safe * 1000 THEN "safe"
  ELSE IF finalScore <= SCORING_CONFIG.thresholds.moderate * 1000 THEN "moderate"
  ELSE "unsafe"

\* a confidence that counts the sentinel distance as a police station
ConfidenceOfMut(inputs) ==
  Min(1000, 500 + (IF inputs.incidents > 0 THEN 200 ELSE 0)
                + (IF inputs.newsAlerts > 0 THEN 150 ELSE 0)
                + (IF inputs.policeDistance <= 50 * 1000 THEN 150 ELSE 0)
                + (IF inputs.touristDensity > 0 THEN 100 ELSE 0))

\* Calculate confidence based on data availability
ConfidenceOf(inputs) ==
  Min(1000, 500 + (IF inputs.incidents > 0 THEN 200 ELSE 0)
                + (IF inputs.newsAlerts > 0 THEN 150 ELSE 0)
                + (IF inputs.policeDistance < 50 * 1000 THEN 150 ELSE 0)
                + (IF inputs.touristDensity > 0 THEN 100 ELSE 0))

\* a computeScore that takes tourist density as a protection and subtracts it
computeScoreMut(inputs, terrainRisk, date) ==
  LET w == SCORING_CONFIG.weights
      normalizedIncidents      == normalize(inputs.incidents, 0, 5 * 1000)
      normalizedNews           == normalize(inputs.newsAlerts, 0, 10 * 1000)
      normalizedPoliceDistance == 1000 - normalize(inputs.policeDistance, 0, 20 * 1000)
      normalizedDensity        == normalize(inputs.touristDensity, 0, 20 * 1000)
      normalizedTerrain        == terrainRisk
      normalizedTime           == inputs.timeRisk
      score == ( normalizedIncidents * w.incidents
               + normalizedNews * w.news
               + normalizedTerrain * w.terrain
               + normalizedTime * w.timeOfDay
               - normalizedDensity * w.density
               - normalizedPoliceDistance * w.policeProximity ) \div 10
      finalScore == ClampScore(score)
  IN  [score      |-> finalScore,
       confidence |-> ConfidenceOf(inputs),
       factors    |-> [incidents |-> normalizedIncidents, news |-> normalizedNews,
                       policeProximity |-> normalizedPoliceDistance,
                       density |-> normalizedDensity, terrain |-> normalizedTerrain,
                       timeOfDay |-> normalizedTime],
       category   |-> CategoryOf(finalScore),
       lastUpdated |-> date]

\* Compute safety score for a zone.  inputs: incidents, newsAlerts,
\* touristDensity and timeRisk at scale 1e-3, policeDistance in metres;
\* date is the value of new Date() at the call.
computeScore(inputs, terrainRisk, date) ==
  LET w == SCORING_CONFIG.weights
      normalizedIncidents      == normalize(inputs.incidents, 0, 5 * 1000)
      normalizedNews           == normalize(inputs.newsAlerts, 0, 10 * 1000)
      normalizedPoliceDistance == 1000 - normalize(inputs.policeDistance, 0, 20 * 1000)
      normalizedDensity        == normalize(inputs.touristDensity, 0, 20 * 1000)
      normalizedTerrain        == terrainRisk
      normalizedTime           == inputs.timeRisk
      score == ( normalizedIncidents * w.incidents
               + normalizedNews * w.news
               + normalizedTerrain * w.terrain
               + normalizedTime * w.timeOfDay
               + normalizedDensity * w.density
               - normalizedPoliceDistance * w.policeProximity ) \div 10
      finalScore == ClampScore(score)
  IN  [score      |-> finalScore,
       confidence |-> ConfidenceOf(inputs),
       factors    |-> [incidents |-> normalizedIncidents, news |-> normalizedNews,
                       policeProximity |-> normalizedPoliceDistance,
                       density |-> normalizedDensity, terrain |-> normalizedTerrain,
                       timeOfDay |-> normalizedTime],
       category   |-> CategoryOf(finalScore),
       lastUpdated |-> date]

(***************************************************************************)
(* The signals computeScore is applied to: zero, the values that put the   *)
(* weighted sum on and next to the category boundaries, and extremes of    *)
(* either sign                                                             *)
(***************************************************************************)
Extreme == 1000000

IncidentSamples == {-Extreme, 0, 2500, 3000, 5000, Extreme}
NewsSamples     == {-Extreme, 0, 5000, Extreme}
PoliceSamples   == {-Extreme, 0, 10000, 50000, Extreme}
DensitySamples  == {-Extreme, 0, 20000, Extreme}
TerrainSamples  == {-Extreme, 0, 100, 500, 900, Extreme}
TimeSamples     == {-Extreme, 200, 400, 700, Extreme}

ScoreInputs ==
  [incidents : IncidentSamples, newsAlerts : NewsSamples, policeDistance : PoliceSamples,
   touristDensity : DensitySamples, terrainRisk : TerrainSamples, timeRisk : TimeSamples]

NoInput == [incidents |-> 0, newsAlerts |-> 0, policeDistance |-> 0,
            touristDensity |-> 0, terrainRisk |-> 0, timeRisk |-> 0]

NoScore == [category |-> "none"]

ScoreIdle == scoreIn = NoInput /\ scoreOut = NoScore

\* computeScore returns for the inputs it was called with
ComputeScoreCall ==
  /\ scoreOut = NoScore
  /\ scoreOut' = computeScore(scoreIn, scoreIn.terrainRisk, 0)
  /\ UNCHANGED <<scoreIn, zoneVars, zoneLog, adjustVars, decayVars, serviceVars, scoreRead,
               probeVars, routeVars>>

(***************************************************************************)
(* server/SafetyScoringService.ts: the signals of one zone                 *)
(***************************************************************************)

\* -Math.log(0.5), at scale 1e-6
Ln2 == 693147

RECURSIVE Halve(_, _)
Halve(v, n) == IF n = 0 \/ v = 0 THEN v ELSE Halve(v \div 2, n - 1)

\* Math.exp(-y) for y >= 0, y and the result at scale 1e-6:
\* exp(-y) = 2^-n * exp(-r) with y = n * ln 2 + r
ExpNeg(y) ==
  LET r  == y % Ln2
      r2 == MulFix(r, r)
      r3 == MulFix(r2, r)
      r4 == MulFix(r3, r)
      r5 == MulFix(r4, r)
      r6 == MulFix(r5, r)
      r7 == MulFix(r6, r)
      r8 == MulFix(r7, r)
      e  == 1000000 - r + r2 \div 2 - r3 \div 6 + r4 \div 24 - r5 \div 120
                    + r6 \div 720 - r7 \div 5040 + r8 \div 40320
  IN  Halve(e, y \div Ln2)

\* Apply exponential decay based on time (value at 1e-3, hoursAgo >= 0 in 1e-3 hour)
applyTimeDecay(value, hoursAgo) ==
  MulFix(ExpNeg(MulFix(Ln2, (hoursAgo * 1000) \div SCORING_CONFIG.decay.timeDecayHours)),
         value)

\* a spatial decay that takes the half-life of the time decay
applySpatialDecayMut(value, distance) ==
  MulFix(ExpNeg(MulFix(Ln2, (distance * 1000) \div SCORING_CONFIG.decay.timeDecayHours)),
         value)

\* Apply spatial decay based on distance (value at 1e-3, distance >= 0 in metres)
applySpatialDecay(value, distance) ==
  MulFix(ExpNeg(MulFix(Ln2, (distance * 1000) \div SCORING_CONFIG.decay.spatialDecayKm)),
         value)

\* the values, ages (1e-3 hour) and distances (metres) the decays are applied
\* to: none, small ones, the half-life and its neighbours, and large ones
DecayValues == {0, 1, 300, 500, 1000, 2000}
DecayHours == {0, 1, 1000, 6000, 12000, 23999, 24000, 24001, 36000, 48000, 72000, 168000}
DecayDistances == {0, 1, 500, 2000, 2500, 4999, 5000, 5001, 10000, 20000, 50000}

\* two applications of a decay to one value: at x and at later >= x
DecayInputs ==
  {in \in [fn : {"time"}, value : DecayValues, x : DecayHours, later : DecayHours]
         \cup [fn : {"spatial"}, value : DecayValues, x : DecayDistances,
                later : DecayDistances] :
     in.x <= in.later}

ApplyTimeDecayCall ==
  /\ decayIn \in DecayInputs /\ decayIn.fn = "time"
  /\ decayOut = NoDecay
  /\ decayOut' = [value |-> applyTimeDecay(decayIn.value, decayIn.x),
                  later |-> applyTimeDecay(decayIn.value, decayIn.later)]
  /\ UNCHANGED <<decayIn, zoneVars, zoneLog, scoreVars, adjustVars, serviceVars, scoreRead,
               probeVars, routeVars>>

ApplySpatialDecayCall ==
  /\ decayIn \in DecayInputs /\ decayIn.fn = "spatial"
  /\ decayOut = NoDecay
  /\ decayOut' = [value |-> applySpatialDecay(decayIn.value, decayIn.x),
                  later |-> applySpatialDecay(decayIn.value, decayIn.later)]
  /\ UNCHANGED <<decayIn, zoneVars, zoneLog, scoreVars, adjustVars, serviceVars, scoreRead,
               probeVars, routeVars>>

\* a terrain table whose unsafe entry is 1
getTerrainRiskMut(zoneType) ==
  CASE zoneType = "safe"       -> 100
    [] zoneType = "moderate"   -> 500
    [] zoneType = "unsafe"     -> 1000
    [] zoneType = "forest"     -> 600
    [] zoneType = "restricted" -> 800
    [] OTHER                   -> 500

\* Get terrain risk score based on zone type
getTerrainRisk(zoneType) ==
  CASE zoneType = "safe"       -> 100
    [] zoneType = "moderate"   -> 500
    [] zoneType = "unsafe"     -> 900
    [] zoneType = "forest"     -> 600
    [] zoneType = "restricted" -> 800
    [] OTHER                   -> 500

\* new Date().getHours() for a clock in minutes
HourOf(date) == (date \div 60) % 24

\* a time risk whose night ends one hour later
getTimeRiskMut(date) ==
  LET hour == HourOf(date)
  IN  IF hour >= 22 \/ hour <= 6 THEN 700
      ELSE IF hour >= 18 \/ hour <= 7 THEN 400
      ELSE 200

\* Get time-based risk factor
getTimeRisk(date) ==
  LET hour == HourOf(date)
  IN  IF hour >= 22 \/ hour <= 5 THEN 700
      ELSE IF hour >= 18 \/ hour <= 7 THEN 400
      ELSE 200

RECURSIVE SumSeq(_)
SumSeq(s) == IF s = <<>> THEN 0 ELSE Head(s) + SumSeq(Tail(s))

\* (now - createdAt) / (1000 * 60 * 60), in 1e-3 hour
HoursAgo(date, then) == ((date - then) * 1000) \div 60

\* the coordinates updateAllZoneScores scores a zone at
ZoneAnchor(zone) ==
  LET coords == zone.coordinates
  IN  IF "center" \in DOMAIN coords
      THEN <<coords.center.lat, coords.center.lng>>
      ELSE IF "lat" \in DOMAIN coords /\ "lng" \in DOMAIN coords
              /\ coords.lat # 0 /\ coords.lng # 0
      THEN <<coords.lat, coords.lng>>
      ELSE <<261445, 917362>>

(***************************************************************************)
(* The database contents the service runs against                          *)
(***************************************************************************)

\* the clock at the start: 21:55 on the ninth day after the epoch
StartTime == 8 * 24 * 60 + 21 * 60 + 55

GuwahatiZone == [id |-> "z1", zoneType |-> "safe", coordinates |-> [type |-> "Polygon"]]
KamakhyaZone == [id |-> "z2", zoneType |-> "safe", coordinates |-> [type |-> "Polygon"]]
DawkiZone    == [id |-> "z3", zoneType |-> "restricted",
                 coordinates |-> [center |-> [lat |-> 251167, lng |-> 917667]]]

ZoneIds == {"z1", "z2", "z3"}

GuwahatiStation == [latitude |-> 261445, longitude |-> 917362]

\* a critical alert about 1 km north of the default anchor, raised an hour before the start
NearAlert == [latitude |-> 261535, longitude |-> 917362, priority |-> "critical",
              status |-> "active", createdAt |-> StartTime - 60]

\* a high alert raised more than a week before the start
OldAlert == [latitude |-> 261445, longitude |-> 917362, priority |-> "high",
             status |-> "active", createdAt |-> StartTime - 8 * 24 * 60]

EmergencyNews == [category |-> "emergency", publishedAt |-> StartTime - 120]
SafetyNews    == [category |-> "safety", publishedAt |-> StartTime - 24 * 60]

\* a tracked tourist 0.5 km east of the default anchor, seen ten minutes before the start
NearTourist == [latitude |-> 261445, longitude |-> 917412, timestamp |-> StartTime - 10]

\* 1: the seeded, quiet database; 2: an alert raised in Guwahati, the border
\* zone deleted and a zone with a centre added
DbContents == <<
  [safetyZones |-> <<GuwahatiZone, KamakhyaZone>>,
   panicAlerts |-> <<OldAlert>>, newsUpdates |-> <<SafetyNews>>,
   policeStations |-> <<GuwahatiStation>>, touristLocations |-> <<>>],
  [safetyZones |-> <<GuwahatiZone, DawkiZone>>,
   panicAlerts |-> <<OldAlert, NearAlert>>, newsUpdates |-> <<SafetyNews, EmergencyNews>>,
   policeStations |-> <<GuwahatiStation>>, touristLocations |-> <<NearTourist>>] >>

\* the coordinates of the rows of the database, and of the zones
RowPoints(rows) == {<<rows[i].latitude, rows[i].longitude>> : i \in DOMAIN rows}

\* the anchors of the zones scored against a single signal: the default
\* anchor and the centre of a zone
ProbeAnchors == {<<261445, 917362>>, <<251167, 917667>>}

\* an active critical alert 1 km north of the anchor, raised an hour before date
AlertNear(anchor, date) ==
  [latitude |-> anchor[1] + 90, longitude |-> anchor[2], priority |-> "critical",
   status |-> "active", createdAt |-> date - 60]

DataPoints ==
  UNION {RowPoints(DbContents[d].panicAlerts) \cup RowPoints(DbContents[d].policeStations)
           \cup RowPoints(DbContents[d].touristLocations) : d \in DOMAIN DbContents}
  \cup {<<AlertNear(a, 0).latitude, AlertNear(a, 0).longitude>> : a \in ProbeAnchors}
ZoneAnchors ==
  UNION {{ZoneAnchor(DbContents[d].safetyZones[i]) : i \in DOMAIN DbContents[d].safetyZones} :
           d \in DOMAIN DbContents}
  \cup ProbeAnchors

\* the distances between them, computed once
DistanceTable ==
  {<<a, p, Haversine(a[1], a[2], p[1], p[2])>> : a \in ZoneAnchors, p \in DataPoints}

\* the service's own haversine distance, in metres, looked up among the
\* distances computed for the anchors and the rows
serviceDistance(lat1, lon1, lat2, lon2) ==
  (CHOOSE t \in DistanceTable : t[1] = <<lat1, lon1>> /\ t[2] = <<lat2, lon2>>)[3]

\* the panic alerts the first query of calculateSafetyInputs selects
\* a first query that selects the alerts already resolved
RecentIncidentsMut(content, date) ==
  SelectSeq(content.panicAlerts,
            LAMBDA a : a.createdAt >= date - 7 * 24 * 60 /\ a.status = "resolved")

RecentIncidents(content, date) ==
  SelectSeq(content.panicAlerts,
            LAMBDA a : a.createdAt >= date - 7 * 24 * 60 /\ a.status = "active")

\* Calculate incident score with spatial and temporal decay
IncidentScore(recentIncidents, zoneLat, zoneLng, date) ==
  SumSeq([i \in 1..Len(recentIncidents) |->
    LET incident == recentIncidents[i]
        distance == serviceDistance(zoneLat, zoneLng, incident.latitude, incident.longitude)
        base     == IF incident.priority = "critical" THEN 2000
                    ELSE IF incident.priority = "high" THEN 1500 ELSE 1000
    IN  applyTimeDecay(applySpatialDecay(base, distance),
                       HoursAgo(date, incident.createdAt))])

\* the news the second query selects
RecentNews(content, date) ==
  SelectSeq(content.newsUpdates, LAMBDA n : n.publishedAt >= date - 7 * 24 * 60)

\* the news score: a base impact by category, decayed by age
NewsScore(recentNews, date) ==
  SumSeq([i \in 1..Len(recentNews) |->
    LET news == recentNews[i]
        base == IF news.category = "safety" THEN 300
                ELSE IF news.category = "alert" THEN 800
                ELSE IF news.category = "emergency" THEN 1000 ELSE 500
    IN  applyTimeDecay(base, HoursAgo(date, news.publishedAt))])

\* Infinity, the start value of nearestPoliceDistance
Infinity == 2000000000

\* Calculate distance to nearest police station
NearestPoliceDistance(stations, zoneLat, zoneLng) ==
  LET ds == {serviceDistance(zoneLat, zoneLng, stations[i].latitude, stations[i].longitude) :
               i \in DOMAIN stations}
  IN  IF ds = {} THEN Infinity ELSE MinOfSet(ds)

\* the tracked locations the fourth query selects
RecentTourists(content, date) ==
  SelectSeq(content.touristLocations, LAMBDA t : t.timestamp >= date - 24 * 60)

\* Get tourist density in the area
TouristDensity(recentTourists, zoneLat, zoneLng) ==
  SumSeq([i \in 1..Len(recentTourists) |->
    LET distance == serviceDistance(zoneLat, zoneLng,
                                    recentTourists[i].latitude, recentTourists[i].longitude)
    IN  IF distance <= 2 * 1000 THEN applySpatialDecay(1000, distance) ELSE 0])

\* the invocations of updateAllZoneScores, the five-minute periods that pass
\* and the calls of startAutoUpdate that a behaviour contains at most
MaxRuns == 2
MaxAdvance == 1
MaxAutoStarts == 2

(***************************************************************************)
(* server/SafetyScoringService.ts: the cache and the sweep                 *)
(***************************************************************************)

EmptyMap == [z \in {} |-> 0]

\* an invocation of updateAllZoneScores that has not been made yet
NoRun == [pc |-> "idle", result |-> "none", failed |-> FALSE, zones |-> <<>>, idx |-> 0,
          date |-> 0]

Started == {r \in DOMAIN runs : runs[r].pc # "idle"}
InProgress == {r \in DOMAIN runs : runs[r].pc \notin {"idle", "done"}}

\* the zones an invocation has computed and written
Processed(r) == {runs[r].zones[i].id : i \in 1..(runs[r].idx - 1)}
Listed(r) == {runs[r].zones[i].id : i \in 1..Len(runs[r].zones)}

ServiceIdle ==
  /\ now = StartTime
  /\ db = 1
  /\ scoreCache = EmptyMap
  /\ lastCacheUpdate = 0
  /\ intervals = 0
  /\ runs = [r \in 1..MaxRuns |-> NoRun]
  /\ writer = [z \in ZoneIds |-> 0]

\* updateAllZoneScores up to its first await: the zone listing is requested
BeginSweep(rs, r) ==
  [rs EXCEPT ![r] = [NoRun EXCEPT !.pc = "zones", !.result = "pending"]]

\* the catch block of updateAllZoneScores, rethrowing
SweepCatchMut(run) ==
  [run EXCEPT !.pc = "done", !.result = "rejected", !.failed = TRUE]

\* the catch block of updateAllZoneScores: the error is logged and the
\* promise of the invocation resolves
SweepCatch(run) ==
  [run EXCEPT !.pc = "done", !.result = "resolved", !.failed = TRUE]

\* a step of invocation r: its new run record, the new cache and stamp, and
\* the zone ids it wrote
RunStep(r, run, cache, stamp, wrote) ==
  /\ scoreCache' = cache
  /\ lastCacheUpdate' = stamp
  /\ runs' = [runs EXCEPT ![r] = run]
  /\ writer' = [z \in ZoneIds |-> IF z \in wrote THEN r ELSE writer[z]]
  /\ UNCHANGED <<now, db, intervals, callVars, scoreRead, routeVars>>

\* calculateSafetyInputs up to its first await, for zone idx of the list:
\* now is taken and the first query is sent
EnterZone(run, idx) ==
  [run EXCEPT !.pc = "inputs", !.idx = idx, !.date = now]

\* the zone listing arrives, or fails
ZonesRead(r, ok) ==
  /\ runs[r].pc = "zones"
  /\ IF ~ok THEN RunStep(r, SweepCatch(runs[r]), scoreCache, lastCacheUpdate, {})
     ELSE LET zones == DbContents[db].safetyZones
              run   == [runs[r] EXCEPT !.zones = zones]
          IN  IF zones = <<>>
              THEN RunStep(r, [run EXCEPT !.pc = "done", !.result = "resolved", !.idx = 1],
                           scoreCache, now, {})
              ELSE RunStep(r, EnterZone(run, 1), scoreCache, lastCacheUpdate, {})

\* Calculate safety inputs for a zone: what the function returns when its
\* queries are answered from content, with now taken at its start (date) and
\* again for the time of day (later)
calculateSafetyInputs(content, zoneLat, zoneLng, date, later) ==
  LET nearest == NearestPoliceDistance(content.policeStations, zoneLat, zoneLng)
  IN  [incidents      |-> IncidentScore(RecentIncidents(content, date), zoneLat, zoneLng, date),
       newsAlerts     |-> NewsScore(RecentNews(content, date), date),
       policeDistance |-> IF nearest = Infinity THEN 50 * 1000 ELSE nearest,
       touristDensity |-> TouristDensity(RecentTourists(content, date), zoneLat, zoneLng),
       terrainRisk    |-> 0,
       timeRisk       |-> getTimeRisk(later)]

\* the score updateAllZoneScores computes for a zone from the inputs
ZoneScore(zone, inputs, date) ==
  computeScore([inputs EXCEPT !.terrainRisk = getTerrainRisk(zone.zoneType)],
               getTerrainRisk(zone.zoneType), date)

\* a loop whose failure stamps lastCacheUpdate all the same
InputsReadMut(r, ok) ==
  /\ runs[r].pc = "inputs"
  /\ IF ~ok THEN RunStep(r, SweepCatch(runs[r]), scoreCache, now, {})
     ELSE \E zone \in {runs[r].zones[runs[r].idx]} :
          \E anchor \in {ZoneAnchor(zone)} :
          \E inputs \in {calculateSafetyInputs(DbContents[db], anchor[1], anchor[2],
                                               runs[r].date, now)} :
          \E computedScore \in {ZoneScore(zone, inputs, now)} :
          LET run   == runs[r]
              cache == (zone.id :> computedScore) @@ scoreCache
          IN  IF run.idx < Len(run.zones)
              THEN RunStep(r, EnterZone(run, run.idx + 1), cache, lastCacheUpdate, {zone.id})
              ELSE RunStep(r, [run EXCEPT !.pc = "done", !.result = "resolved",
                                          !.idx = run.idx + 1],
                           cache, now, {zone.id})

\* the four queries of calculateSafetyInputs for the current zone have been
\* answered, or one of them has failed: the score of the zone is computed and
\* stored, and the loop goes on to the next zone or, after the last one, stamps
\* lastCacheUpdate and ends.  The queries only read the database and are
\* answered in one step, from the content the database has at that step.
InputsRead(r, ok) ==
  /\ runs[r].pc = "inputs"
  /\ IF ~ok THEN RunStep(r, SweepCatch(runs[r]), scoreCache, lastCacheUpdate, {})
     ELSE \E zone \in {runs[r].zones[runs[r].idx]} :
          \E anchor \in {ZoneAnchor(zone)} :
          \E inputs \in {calculateSafetyInputs(DbContents[db], anchor[1], anchor[2],
                                               runs[r].date, now)} :
          \E computedScore \in {ZoneScore(zone, inputs, now)} :
          LET run   == runs[r]
              cache == (zone.id :> computedScore) @@ scoreCache
          IN  IF run.idx < Len(run.zones)
              THEN RunStep(r, EnterZone(run, run.idx + 1), cache, lastCacheUpdate, {zone.id})
              ELSE RunStep(r, [run EXCEPT !.pc = "done", !.result = "resolved",
                                          !.idx = run.idx + 1],
                           cache, now, {zone.id})

\* Check if scores need updating (older than 5 minutes)
shouldUpdateScores == lastCacheUpdate < now - 5

\* the next invocation number, while the bound allows one
NextRun == Cardinality(Started) + 1

\* some caller invokes updateAllZoneScores
ManualUpdate ==
  /\ NextRun <= MaxRuns
  /\ runs' = BeginSweep(runs, NextRun)
  /\ UNCHANGED <<now, db, scoreCache, lastCacheUpdate, intervals, writer, callVars, scoreRead, routeVars>>

\* Start automatic score updates every 5 minutes: an initial update and a timer
StartAutoUpdate ==
  /\ intervals < MaxAutoStarts
  /\ NextRun <= MaxRuns
  /\ runs' = BeginSweep(runs, NextRun)
  /\ intervals' = intervals + 1
  /\ UNCHANGED <<now, db, scoreCache, lastCacheUpdate, writer, callVars, scoreRead, routeVars>>

RECURSIVE BeginSweeps(_, _, _)
BeginSweeps(rs, first, n) ==
  IF n = 0 THEN rs ELSE BeginSweeps(BeginSweep(rs, first), first + 1, n - 1)

\* timers that stop calling once a sweep has failed
TickMut ==
  /\ now < StartTime + 5 * MaxAdvance
  /\ NextRun + intervals - 1 <= MaxRuns
  /\ now' = now + 5
  /\ runs' = IF \E r \in DOMAIN runs : runs[r].failed
             THEN runs ELSE BeginSweeps(runs, NextRun, intervals)
  /\ UNCHANGED <<db, scoreCache, lastCacheUpdate, intervals, writer, callVars, scoreRead, routeVars>>

\* five minutes pass and every registered timer calls updateAllZoneScores
Tick ==
  /\ now < StartTime + 5 * MaxAdvance
  /\ NextRun + intervals - 1 <= MaxRuns
  /\ now' = now + 5
  /\ runs' = BeginSweeps(runs, NextRun, intervals)
  /\ UNCHANGED <<db, scoreCache, lastCacheUpdate, intervals, writer, callVars, scoreRead, routeVars>>

\* requests change the content of the database
ChangeData(d) ==
  /\ d > db
  /\ db' = d
  /\ UNCHANGED <<now, scoreCache, lastCacheUpdate, intervals, runs, writer, callVars, scoreRead, routeVars>>

\* what getZoneScore returns for an id without an entry
Null == [category |-> "null"]

\* a getZoneScore that hides the entries of zones the database no longer has
getZoneScoreMut(zoneId) ==
  IF /\ zoneId \in DOMAIN scoreCache
     /\ \E i \in DOMAIN DbContents[db].safetyZones : DbContents[db].safetyZones[i].id = zoneId
  THEN scoreCache[zoneId] ELSE Null

\* Get computed safety score for a zone: scoreCache.get(zoneId) || null, where
\* an entry is an object and so never falsy
getZoneScore(zoneId) ==
  IF zoneId \in DOMAIN scoreCache THEN scoreCache[zoneId] ELSE Null

\* the ids readers ask for: the zones of the database and one that never existed
UnknownZone == "z9"
ReadIds == ZoneIds \cup {UnknownZone}

\* a caller reads the score of a zone
GetZoneScoreCall(zoneId) ==
  /\ scoreRead' = [zoneId |-> zoneId, result |-> getZoneScore(zoneId)]
  /\ UNCHANGED <<serviceVars, callVars, routeVars>>

\* Get all computed zone scores: a copy of the cache
getAllZoneScores == [z \in DOMAIN scoreCache |-> getZoneScore(z)]

(***************************************************************************)
(* client/src/lib/safetyZones.ts: the adjustments of a score                *)
(* A text is the sequence of its characters.                               *)
(***************************************************************************)

\* a night penalty that ends before 06:00
adjustSafetyScoreForTimeMut(baseScore, hour) ==
  IF hour >= 22 \/ hour < 6 THEN Max(baseScore - 20, 0)
  ELSE IF (hour >= 6 /\ hour <= 8) \/ (hour >= 19 /\ hour <= 22) THEN Max(baseScore - 10, 0)
  ELSE baseScore

\* Time-based safety scoring adjustments
adjustSafetyScoreForTime(baseScore, hour) ==
  IF hour >= 22 \/ hour <= 6 THEN Max(baseScore - 20, 0)
  ELSE IF (hour >= 6 /\ hour <= 8) \/ (hour >= 19 /\ hour <= 22) THEN Max(baseScore - 10, 0)
  ELSE baseScore

\* the letters String.prototype.toLowerCase changes in the texts used here
Letters == <<
  <<"A", "a">>, <<"B", "b">>, <<"C", "c">>, <<"D", "d">>, <<"E", "e">>, <<"F", "f">>,
  <<"G", "g">>, <<"H", "h">>, <<"I", "i">>, <<"J", "j">>, <<"K", "k">>, <<"L", "l">>,
  <<"M", "m">>, <<"N", "n">>, <<"O", "o">>, <<"P", "p">>, <<"Q", "q">>, <<"R", "r">>,
  <<"S", "s">>, <<"T", "t">>, <<"U", "u">>, <<"V", "v">>, <<"W", "w">>, <<"X", "x">>,
  <<"Y", "y">>, <<"Z", "z">> >>

toLowerCase(text) ==
  [i \in DOMAIN text |->
     IF \E k \in DOMAIN Letters : Letters[k][1] = text[i]
     THEN Letters[CHOOSE k \in DOMAIN Letters : Letters[k][1] = text[i]][2]
     ELSE text[i]]

\* String.prototype.includes
includes(text, keyword) ==
  \E i \in 0..(Len(text) - Len(keyword)) : SubSeq(text, i + 1, i + Len(keyword)) = keyword

KwHeavyRain == <<"h", "e", "a", "v", "y", " ", "r", "a", "i", "n">>
KwStorm == <<"s", "t", "o", "r", "m">>
KwCyclone == <<"c", "y", "c", "l", "o", "n", "e">>
KwRain == <<"r", "a", "i", "n">>
KwFog == <<"f", "o", "g">>
KwMist == <<"m", "i", "s", "t">>
KwSnow == <<"s", "n", "o", "w">>
KwHail == <<"h", "a", "i", "l">>

\* Weather-based safety scoring adjustments
adjustSafetyScoreForWeather(baseScore, conditions) ==
  LET weather == toLowerCase(conditions)
  IN  IF includes(weather, KwHeavyRain) \/ includes(weather, KwStorm)
         \/ includes(weather, KwCyclone)
      THEN Max(baseScore - 30, 0)
      ELSE IF includes(weather, KwRain) \/ includes(weather, KwFog) \/ includes(weather, KwMist)
      THEN Max(baseScore - 15, 0)
      ELSE IF includes(weather, KwSnow) \/ includes(weather, KwHail)
      THEN Max(baseScore - 25, 0)
      ELSE baseScore

\* the weather texts the adjustment is applied to
WeatherTexts == {
  <<>>,
  <<"C", "l", "e", "a", "r">>,
  <<"S", "u", "n", "n", "y">>,
  <<"H", "e", "a", "v", "y", " ", "R", "a", "i", "n">>,
  <<"h", "e", "a", "v", "y", " ", "r", "a", "i", "n", " ", "e", "x", "p", "e", "c", "t", "e", "d">>,
  <<"L", "i", "g", "h", "t", " ", "r", "a", "i", "n">>,
  <<"H", "E", "A", "V", "Y", " ", " ", "R", "A", "I", "N">>,
  <<"T", "h", "u", "n", "d", "e", "r", "s", "t", "o", "r", "m">>,
  <<"C", "Y", "C", "L", "O", "N", "E", " ", "w", "a", "r", "n", "i", "n", "g">>,
  <<"S", "n", "o", "w", "s", "t", "o", "r", "m">>,
  <<"S", "n", "o", "w">>,
  <<"L", "i", "g", "h", "t", " ", "s", "n", "o", "w">>,
  <<"H", "a", "i", "l">>,
  <<"R", "a", "i", "n", " ", "a", "n", "d", " ", "s", "n", "o", "w">>,
  <<"H", "a", "i", "l", ",", " ", "t", "h", "e", "n", " ", "m", "i", "s", "t">>,
  <<"F", "o", "g">>,
  <<"D", "e", "n", "s", "e", " ", "F", "O", "G">>,
  <<"M", "i", "s", "t", "y">>,
  <<"D", "r", "i", "z", "z", "l", "e">>,
  <<"B", "r", "a", "i", "n", "s", "t", "o", "r", "m">>,
  <<"T", "r", "a", "i", "n", " ", "d", "e", "l", "a", "y", "s">> }

\* the scores of getSafetyZone, the penalties, their neighbours and the ends
\* of the range
WeatherScores == {0, 10, 14, 15, 16, 20, 24, 25, 26, 29, 30, 31, 40, 60, 70, 90, 100}

TimeInputs == [fn : {"time"}, baseScore : 0..100, hour : 0..23]
WeatherInputs == [fn : {"weather"}, baseScore : WeatherScores, conditions : WeatherTexts]

AdjustForTimeCall ==
  /\ adjustIn \in TimeInputs
  /\ adjustOut = NoAdjust
  /\ adjustOut' = [score |-> adjustSafetyScoreForTime(adjustIn.baseScore, adjustIn.hour)]
  /\ UNCHANGED <<adjustIn, zoneVars, zoneLog, scoreVars, decayVars, serviceVars, scoreRead,
               probeVars, routeVars>>

AdjustForWeatherCall ==
  /\ adjustIn \in WeatherInputs
  /\ adjustOut = NoAdjust
  /\ adjustOut' = [score |-> adjustSafetyScoreForWeather(adjustIn.baseScore, adjustIn.conditions)]
  /\ UNCHANGED <<adjustIn, zoneVars, zoneLog, scoreVars, decayVars, serviceVars, scoreRead,
               probeVars, routeVars>>

(***************************************************************************)
(* getSafetyZone called again and again                                    *)
(***************************************************************************)
MaxCalls == 2

\* the coordinates of the repeated calls: a city, two points on its latitude
\* (one of them with a NaN longitude) and a point outside the bounds
CallPoints == {<<261445, 917362>>, <<261445, 940000>>, <<261445, NaN>>, <<0, 0>>}

\* a call of getSafetyZone after earlier ones; the log keeps what the first
\* call for the coordinates returned and counts the calls for them
ClassifyAgain(p) ==
  /\ p \in DOMAIN zoneLog => zoneLog[p].calls < MaxCalls
  /\ \E result \in {getSafetyZone(p[1], p[2])} :
       /\ zoneQuery' = p
       /\ zoneResult' = result
       /\ zoneLog' = IF p \in DOMAIN zoneLog
                     THEN [zoneLog EXCEPT ![p].calls = @ + 1]
                     ELSE (p :> [first |-> result, calls |-> 1]) @@ zoneLog
  /\ UNCHANGED <<scoreVars, adjustVars, decayVars, serviceVars, scoreRead,
               probeVars, routeVars>>

(***************************************************************************)
(* The scoring of one zone against a database with a single signal          *)
(***************************************************************************)

\* the zone types of getTerrainRisk and one it does not list
ZoneTypes == {"safe", "moderate", "unsafe", "forest", "restricted", "other"}

\* a database without zones, alerts, news, police stations or tracked locations
QuietContent ==
  [safetyZones |-> <<>>, panicAlerts |-> <<>>, newsUpdates |-> <<>>,
   policeStations |-> <<>>, touristLocations |-> <<>>]

\* the clock at the given hour of the day of StartTime
ProbeDate(hour) == (StartTime \div (24 * 60)) * 24 * 60 + hour * 60

\* a zone of the given type with its centre at the anchor
ProbeZone(zoneType, anchor) ==
  [id |-> "z1", zoneType |-> zoneType,
   coordinates |-> [center |-> [lat |-> anchor[1], lng |-> anchor[2]]]]

AlertInputs == [fn : {"alert"}, zoneType : ZoneTypes, hour : 0..23, anchor : ProbeAnchors]

\* the zone is scored the way one pass of the loop of updateAllZoneScores
\* does, against the database without any signal
QuietScoreCall ==
  /\ probeIn \in AlertInputs
  /\ probeOut = NoProbe
  /\ \E date \in {ProbeDate(probeIn.hour)} :
     \E zone \in {ProbeZone(probeIn.zoneType, probeIn.anchor)} :
     \E anchor \in {ZoneAnchor(zone)} :
     \E quiet \in {calculateSafetyInputs(QuietContent, anchor[1], anchor[2], date, date)} :
     \E without \in {ZoneScore(zone, quiet, date)} :
       probeOut' = [fn |-> "quiet", without |-> without]
  /\ UNCHANGED <<probeIn, zoneVars, zoneLog, scoreVars, adjustVars, decayVars, serviceVars,
                 scoreRead, routeVars>>

\* the zone is scored again at the same time, with the alert as the only signal
AlertScoreCall ==
  /\ probeIn \in AlertInputs
  /\ probeOut.fn = "quiet"
  /\ \E date \in {ProbeDate(probeIn.hour)} :
     \E zone \in {ProbeZone(probeIn.zoneType, probeIn.anchor)} :
     \E anchor \in {ZoneAnchor(zone)} :
     \E content \in {[QuietContent EXCEPT !.panicAlerts = <<AlertNear(anchor, date)>>]} :
     \E inputs \in {calculateSafetyInputs(content, anchor[1], anchor[2], date, date)} :
     \E with \in {ZoneScore(zone, inputs, date)} :
       probeOut' = [fn |-> "alert", with |-> with, without |-> probeOut.without]
  /\ UNCHANGED <<probeIn, zoneVars, zoneLog, scoreVars, adjustVars, decayVars, serviceVars,
                 scoreRead, routeVars>>

(***************************************************************************)
(* computeScore applied to two inputs that differ in one signal            *)
(***************************************************************************)
SignalNames ==
  {"incidents", "newsAlerts", "policeDistance", "touristDensity", "terrainRisk", "timeRisk"}

\* the values the lower input is built from, and the values a signal is raised to
LowInputs ==
  [incidents : {-Extreme, 0, 2500}, newsAlerts : {0, 5000}, policeDistance : {0, 10000, 50000},
   touristDensity : {0, 20000}, terrainRisk : {100, 900}, timeRisk : {200, 700}]
RaisedTo == {1, 400, 900, 3000, 5000, 12000, 20000, 50000, Extreme}

RaisedInputs ==
  {in \in [fn : {"raise"}, low : LowInputs, signal : SignalNames, to : RaisedTo] :
     in.to > in.low[in.signal]}

\* computeScore is called for the lower input and for the input with the one
\* signal raised; the terrain risk is passed as updateAllZoneScores passes it
RaisedScoreCall ==
  /\ probeIn \in RaisedInputs
  /\ probeOut = NoProbe
  /\ \E high \in {[probeIn.low EXCEPT ![probeIn.signal] = probeIn.to]} :
       probeOut' = [fn |-> "raise",
                    low  |-> computeScore(probeIn.low, probeIn.low.terrainRisk, 0),
                    high |-> computeScore(high, high.terrainRisk, 0)]
  /\ UNCHANGED <<probeIn, zoneVars, zoneLog, scoreVars, adjustVars, decayVars, serviceVars,
                 scoreRead, routeVars>>

(***************************************************************************)
(* server/routes.ts: panic alerts, their auto-resolve timers, the dashboard *)
(* and the WebSocket broadcasts                                             *)
(***************************************************************************)

\* the users of the sessions: their role column, which may be null
UserRoles == [u1 |-> "tourist", u2 |-> "police", u3 |-> "admin", u4 |-> "null"]
Users == DOMAIN UserRoles

\* the tourists that raise alerts and report locations
TouristRows ==
  [t1 |-> [id |-> "t1", fullName |-> "Asha Rao", digitalId |-> "NE-0001",
           phoneNumber |-> "+91-361-0001", emergencyContact |-> "+91-361-0002"],
   t2 |-> [id |-> "t2", fullName |-> "Ben Koch", digitalId |-> "NE-0002",
           phoneNumber |-> "+91-361-0003", emergencyContact |-> "+91-361-0004"]]
Tourists == DOMAIN TouristRows

\* where they are, in 1e-4 degree: two positions of one hundredth-degree cell,
\* the second on its corner, and a position of another cell
Positions == {<<261445, 917362>>, <<261400, 917300>>, <<255712, 918840>>}

\* who raises an alert or reports a location, and where
Reports == {<<"t1", <<261445, 917362>>>>, <<"t2", <<261400, 917300>>>>,
            <<"t2", <<255712, 918840>>>>}

\* the address of the request body and the station getNearestPoliceStation finds
AlertAddress == "Paltan Bazaar, Guwahati"
NearestStation == [id |-> "ps1", name |-> "Guwahati Central Police Station"]

\* Math.floor(parseFloat(x) * 100) / 100 of a coordinate in 1e-4 degree
ReducedPrecision(x) == (x \div 100) * 100

\* alert.address?.split(',')[0] || 'Unknown location'
AreaOf(address) ==
  IF address = AlertAddress THEN "Paltan Bazaar" ELSE "Unknown location"

\* Sanitized emergency data for general broadcast (no PII)
publicEmergencyData(id, alert) ==
  [type |-> "emergencyAlert", priority |-> "critical",
   data |-> [alert |-> [id |-> id,
                        latitude  |-> ReducedPrecision(alert.latitude),
                        longitude |-> ReducedPrecision(alert.longitude),
                        address |-> AlertAddress, status |-> alert.status],
             emergency |-> [type |-> "panic_alert", area |-> AreaOf(AlertAddress)]]]

\* Full emergency data for police/admin users (includes PII).  A row of the
\* tourists table has a phoneNumber and no phone, so that tourist.phone is
\* undefined and JSON.stringify leaves the field out.
policeEmergencyData(id, alert, tourist, policeStation) ==
  [type |-> "emergencyAlert", priority |-> "critical",
   data |-> [alert |-> [id |-> id, latitude |-> alert.latitude, longitude |-> alert.longitude,
                        address |-> AlertAddress, status |-> alert.status],
             tourist |-> [id |-> tourist.id, fullName |-> tourist.fullName,
                          digitalId |-> tourist.digitalId,
                          emergencyContact |-> tourist.emergencyContact],
             policeStation |-> policeStation]]

\* the message of broadcastLocationUpdate
locationUpdateData(id, location, tourist) ==
  [type |-> "locationUpdate",
   data |-> [location |-> [id |-> id, touristId |-> location.touristId,
                           latitude |-> location.latitude, longitude |-> location.longitude],
             tourist |-> [id |-> tourist.id, fullName |-> tourist.fullName,
                          digitalId |-> tourist.digitalId]]]

IsPoliceOrAdmin(client) == client.userRole = "police" \/ client.userRole = "admin"

\* a location broadcast that only asks for an open socket
broadcastLocationUpdateMut(id, location, tourist) ==
  [c \in ClientIds |->
     IF clients[c].readyState = "OPEN"
     THEN inbox[c] \cup {locationUpdateData(id, location, tourist)}
     ELSE inbox[c]]

\* broadcastLocationUpdate: what every client has been sent after it
broadcastLocationUpdate(id, location, tourist) ==
  [c \in ClientIds |->
     IF clients[c].readyState = "OPEN" /\ clients[c].isAuthenticated
        /\ IsPoliceOrAdmin(clients[c])
     THEN inbox[c] \cup {locationUpdateData(id, location, tourist)}
     ELSE inbox[c]]

\* broadcastEmergencyAlert: what every client has been sent after it
broadcastEmergencyAlert(id, alert, tourist, policeStation) ==
  [c \in ClientIds |->
     IF clients[c].readyState = "OPEN" /\ clients[c].isAuthenticated
     THEN IF IsPoliceOrAdmin(clients[c])
          THEN inbox[c] \cup {policeEmergencyData(id, alert, tourist, policeStation)}
          ELSE inbox[c] \cup {publicEmergencyData(id, alert)}
     ELSE inbox[c]]

\* the id of the next panic alert row
NextAlertId == Cardinality({a \in AlertIds : alerts[a] # NoAlert}) + 1

\* POST /api/panicAlert up to the creation of the row, with status active
CreatePanicAlert(t, p) ==
  /\ NextAlertId <= MaxAlerts
  /\ alerts' = [alerts EXCEPT ![NextAlertId] =
                  [status |-> "active", respondedBy |-> "none", touristId |-> t,
                   latitude |-> p[1], longitude |-> p[2]]]
  /\ timers' = [timers EXCEPT ![NextAlertId].pc = "created"]
  /\ UNCHANGED <<locations, clients, inbox, serviceVars, callVars, scoreRead>>

\* POST /api/panicAlert after the nearest station is found: the alert as it
\* was created is broadcast and the auto-resolve timer is set
AlertCreated(a) ==
  /\ timers[a].pc = "created"
  /\ inbox' = broadcastEmergencyAlert(a, [alerts[a] EXCEPT !.status = "active"],
                                      TouristRows[alerts[a].touristId], NearestStation)
  /\ timers' = [timers EXCEPT ![a].pc = "waiting"]
  /\ UNCHANGED <<alerts, locations, clients, serviceVars, callVars, scoreRead>>

\* the timer of an alert fires after 4 hours and getPanicAlert returns the
\* row: the callback is done unless the row is active, and then sends its update
TimerRead(a) ==
  /\ timers[a].pc = "waiting"
  /\ timers' = [timers EXCEPT ![a] =
                  [pc |-> IF alerts[a].status = "active" THEN "read" ELSE "done",
                   seen |-> alerts[a].status]]
  /\ UNCHANGED <<alerts, locations, clients, inbox, serviceVars, callVars, scoreRead>>

\* the update of the callback reaches the database
TimerUpdate(a) ==
  /\ timers[a].pc = "read"
  /\ alerts' = [alerts EXCEPT ![a].status = "auto-resolved"]
  /\ timers' = [timers EXCEPT ![a].pc = "done"]
  /\ UNCHANGED <<locations, clients, inbox, serviceVars, callVars, scoreRead>>

\* the statuses the police dashboard sets: those the schema names
DashboardStatuses == {"active", "responded", "resolved"}

\* PUT /api/dashboard/alerts/:id by a police or admin user u
DashboardUpdate(a, u, status) ==
  /\ UserRoles[u] \in {"police", "admin"}
  /\ alerts[a] # NoAlert
  /\ alerts[a].status # status
  /\ alerts' = [alerts EXCEPT ![a].status = status,
                               ![a].respondedBy = IF status = "active" THEN @ ELSE u]
  /\ UNCHANGED <<timers, locations, clients, inbox, serviceVars, callVars, scoreRead>>

\* POST /api/updateLocation: the row is added and broadcast
UpdateLocation(t, p) ==
  /\ Len(locations) < MaxLocations
  /\ \E location \in {[touristId |-> t, latitude |-> p[1], longitude |-> p[2]]} :
       /\ locations' = Append(locations, location)
       /\ inbox' = broadcastLocationUpdate(Len(locations) + 1, location, TouristRows[t])
  /\ UNCHANGED <<alerts, timers, clients, serviceVars, callVars, scoreRead>>

\* the credentials a connection comes with: no session cookie, or the cookie
\* of the session of a user
Credentials == {"nocookie"} \cup Users

\* the next WebSocket connection
NextClientId == Cardinality({c \in ClientIds : clients[c] # NoClient}) + 1

\* wss.on('connection') up to its first await: without cookie the socket is closed
Connect(cred) ==
  /\ NextClientId <= MaxClients
  /\ clients' = [clients EXCEPT ![NextClientId] =
                   IF cred = "nocookie"
                   THEN [NoClient EXCEPT !.readyState = "CLOSED", !.pc = "done"]
                   ELSE [NoClient EXCEPT !.readyState = "OPEN", !.pc = "session", !.user = cred]]
  /\ UNCHANGED <<alerts, timers, locations, inbox, serviceVars, callVars, scoreRead>>

\* getSessionData returns the session, or returns none or throws
SessionRead(c, ok) ==
  /\ clients[c].pc = "session"
  /\ clients' = [clients EXCEPT ![c] =
                   IF ok
                   THEN [@ EXCEPT !.pc = "user"]
                   ELSE [@ EXCEPT !.readyState = "CLOSED", !.pc = "done"]]
  /\ UNCHANGED <<alerts, timers, locations, inbox, serviceVars, callVars, scoreRead>>

\* getUser returns the user, or returns none or throws: the client is
\* authenticated with the role of its user, tourist when the user has none
UserRead(c, ok) ==
  /\ clients[c].pc = "user"
  /\ clients' = [clients EXCEPT ![c] =
                   IF ok
                   THEN [@ EXCEPT !.userRole = IF UserRoles[clients[c].user] = "null"
                                               THEN "tourist"
                                               ELSE UserRoles[clients[c].user],
                                  !.isAuthenticated = TRUE, !.pc = "ready"]
                   ELSE [@ EXCEPT !.readyState = "CLOSED", !.pc = "done"]]
  /\ UNCHANGED <<alerts, timers, locations, inbox, serviceVars, callVars, scoreRead>>

\* the peer closes its connection
Disconnect(c) ==
  /\ clients[c].readyState = "OPEN"
  /\ clients' = [clients EXCEPT ![c].readyState = "CLOSED"]
  /\ UNCHANGED <<alerts, timers, locations, inbox, serviceVars, callVars, scoreRead>>

vars == <<zoneQuery, zoneResult, scoreIn, scoreOut, now, db, scoreCache, lastCacheUpdate,
          intervals, runs, writer, scoreRead, zoneLog, adjustIn, adjustOut, decayIn, decayOut,
          probeIn, probeOut, alerts, timers, locations, clients, inbox>>

(***************************************************************************)
(* Specifications                                                          *)
(***************************************************************************)

\* getSafetyZone applied to each sample coordinate
InitZone ==
  /\ zoneQuery \in ZonePoints /\ zoneResult = NoResult
  /\ ScoreIdle /\ ServiceIdle /\ RouteIdle /\ ProbeIdle /\ ReadIdle /\ LogIdle /\ AdjustIdle /\ DecayIdle

NextZone == Classify

SpecZone == InitZone /\ [][NextZone]_vars

\* computeScore applied to each sample input
InitScore ==
  /\ scoreIn \in ScoreInputs /\ scoreOut = NoScore
  /\ ZoneIdle /\ ServiceIdle /\ RouteIdle /\ ProbeIdle /\ ReadIdle /\ LogIdle /\ AdjustIdle /\ DecayIdle

NextScore == ComputeScoreCall

SpecScore == InitScore /\ [][NextScore]_vars

\* getSafetyZone called for the same and for other coordinates, in any order
InitCalls ==
  ZoneIdle /\ ScoreIdle /\ ServiceIdle /\ RouteIdle /\ ProbeIdle /\ ReadIdle /\ LogIdle /\ AdjustIdle /\ DecayIdle

NextCalls == \E p \in CallPoints : ClassifyAgain(p)

SpecCalls == InitCalls /\ [][NextCalls]_vars

\* the adjustments applied to each sample score, hour and weather text
InitAdjust ==
  /\ adjustIn \in TimeInputs \cup WeatherInputs /\ adjustOut = NoAdjust
  /\ ZoneIdle /\ ScoreIdle /\ ServiceIdle /\ RouteIdle /\ ProbeIdle /\ ReadIdle /\ LogIdle /\ DecayIdle

NextAdjust == AdjustForTimeCall \/ AdjustForWeatherCall

SpecAdjust == InitAdjust /\ [][NextAdjust]_vars

\* the decays applied to each sample value, age and distance
InitDecay ==
  /\ decayIn \in DecayInputs /\ decayOut = NoDecay
  /\ ZoneIdle /\ ScoreIdle /\ ServiceIdle /\ RouteIdle /\ ProbeIdle /\ ReadIdle /\ LogIdle /\ AdjustIdle

NextDecay == ApplyTimeDecayCall \/ ApplySpatialDecayCall

SpecDecay == InitDecay /\ [][NextDecay]_vars

\* a zone scored with and without a single alert
InitAlert ==
  /\ probeIn \in AlertInputs /\ probeOut = NoProbe
  /\ ZoneIdle /\ ScoreIdle /\ ServiceIdle /\ RouteIdle /\ ReadIdle /\ LogIdle
  /\ AdjustIdle /\ DecayIdle

NextAlert == QuietScoreCall \/ AlertScoreCall

SpecAlert == InitAlert /\ [][NextAlert]_vars

\* computeScore applied to an input and to the same input with one signal raised
InitRaise ==
  /\ probeIn \in RaisedInputs /\ probeOut = NoProbe
  /\ ZoneIdle /\ ScoreIdle /\ ServiceIdle /\ RouteIdle /\ ReadIdle /\ LogIdle
  /\ AdjustIdle /\ DecayIdle

NextRaise == RaisedScoreCall

SpecRaise == InitRaise /\ [][NextRaise]_vars

\* the scoring service: sweeps started by callers and timers, running against
\* a changing database, and readers of the cache
Init == ZoneIdle /\ ScoreIdle /\ ServiceIdle /\ RouteIdle /\ ProbeIdle /\ ReadIdle /\ LogIdle /\ AdjustIdle /\ DecayIdle

Next ==
  \/ ManualUpdate
  \/ StartAutoUpdate
  \/ Tick
  \/ \E d \in DOMAIN DbContents : ChangeData(d)
  \/ \E r \in DOMAIN runs, ok \in BOOLEAN : ZonesRead(r, ok)
  \/ \E r \in DOMAIN runs, ok \in BOOLEAN : InputsRead(r, ok)

Spec == Init /\ [][Next]_vars

\* readers of the cache while callers start sweeps and the database changes
NextRead ==
  \/ ManualUpdate
  \/ \E d \in DOMAIN DbContents : ChangeData(d)
  \/ \E r \in DOMAIN runs, ok \in BOOLEAN : ZonesRead(r, ok)
  \/ \E r \in DOMAIN runs, ok \in BOOLEAN : InputsRead(r, ok)
  \/ \E zoneId \in ReadIds : GetZoneScoreCall(zoneId)

SpecRead == Init /\ [][NextRead]_vars

\* the schedule on its own: startAutoUpdate is called once and nobody calls
\* updateAllZoneScores by hand.  The data source may fail any query as long as
\* a tick is still to come within the horizon of the model, and works from
\* then on.  Timers fire and queries are answered (or fail): both are events
\* of the Node.js event loop, which runs every callback that is ready.
TickLeft == now < StartTime + 5 * MaxAdvance

\* weak fairness of the step in which the queries of calculateSafetyInputs are
\* answered for invocation r, written out: the step is enabled exactly while
\* the invocation awaits them, and it always changes the record of the run
InputsAnswered(r) ==
  \/ []<>(runs[r].pc # "inputs")
  \/ []<><<runs[r].pc = "inputs" /\ runs'[r] # runs[r]>>_vars

NextLive ==
  \/ intervals = 0 /\ StartAutoUpdate
  \/ Tick
  \/ \E d \in DOMAIN DbContents : ChangeData(d)
  \/ \E r \in DOMAIN runs, ok \in BOOLEAN : (ok \/ TickLeft) /\ ZonesRead(r, ok)
  \/ \E r \in DOMAIN runs, ok \in BOOLEAN : (ok \/ TickLeft) /\ InputsRead(r, ok)

SpecLive ==
  /\ Init /\ [][NextLive]_vars
  /\ WF_vars(Tick)
  /\ \A r \in 1..MaxRuns :
       /\ WF_vars(\E ok \in BOOLEAN : (ok \/ TickLeft) /\ ZonesRead(r, ok))
       /\ InputsAnswered(r)

(***************************************************************************)
(* Properties                                                              *)
(***************************************************************************)

\* C1: for every coordinate outside the region bounds (lat < 23 or lat > 29
\* or lng < 88 or lng > 97) getSafetyZone returns 'restricted' with score 0
\* and the jurisdiction reason, however close the point is to an anchor.
C1_OutsideBoundsIsRestricted ==
  LET lat == zoneQuery[1]
      lng == zoneQuery[2]
      outside == \/ (lat # NaN /\ (lat < 230000 \/ lat > 290000))
                 \/ (lng # NaN /\ (lng < 880000 \/ lng > 970000))
  IN  (zoneResult # NoResult /\ outside) =>
        zoneResult = [zoneType |-> "restricted", score |-> 0,
                      reason |-> <<"Outside Northeast India jurisdiction">>]

\* C1 witness: the Lunglei city anchor (latitude 22.8879) was classified
\* and got the jurisdiction result
C1_Witness ==
  /\ zoneQuery = <<228879, 927345>>
  /\ zoneResult.zoneType = "restricted" /\ zoneResult.score = 0

\* some anchor of the table is closer than km kilometres to the queried point
NearSome(table, km) ==
  \E i \in DOMAIN table :
     calculateDistance(zoneQuery[1], zoneQuery[2], table[i].lat, table[i].lng) < km * 1000

QueryInsideBounds ==
  /\ zoneQuery[1] # NaN /\ zoneQuery[2] # NaN
  /\ zoneQuery[1] >= 230000 /\ zoneQuery[1] <= 290000
  /\ zoneQuery[2] >= 880000 /\ zoneQuery[2] <= 970000

\* C2: inside the bounds the rules apply in the order restricted (< 10 km),
\* forest (< 5 km), city (< 20 km), moderate (nearest city < 50 km), unsafe,
\* and the earliest rule whose threshold is met decides the result.
C2_RuleOrder ==
  (zoneResult # NoResult /\ QueryInsideBounds) =>
    <<zoneResult.zoneType, zoneResult.score>> =
      IF NearSome(RESTRICTED_ZONES, 10) THEN <<"restricted", 20>>
      ELSE IF NearSome(FOREST_ZONES, 5) THEN <<"forest", 60>>
      ELSE IF NearSome(NORTHEAST_CITIES, 20) THEN <<"safe", 90>>
      ELSE IF NearSome(NORTHEAST_CITIES, 50) THEN <<"moderate", 70>>
      ELSE <<"unsafe", 40>>

\* C2 witness: the Dawki anchor, which is a city anchor and a restricted
\* anchor at once, was classified 'restricted' with score 20
C2_Witness ==
  /\ zoneQuery = <<251167, 917667>>
  /\ NearSome(RESTRICTED_ZONES, 10) /\ NearSome(NORTHEAST_CITIES, 20)
  /\ zoneResult.zoneType = "restricted" /\ zoneResult.score = 20

C4_CategoryBoundaries ==
  scoreOut # NoScore =>
    /\ (scoreOut.category = "safe") <=> (scoreOut.score <= 20000)
    /\ (scoreOut.category = "moderate") <=> (scoreOut.score > 20000 /\ scoreOut.score <= 50000)
    /\ (scoreOut.category = "unsafe") <=> (scoreOut.score > 50000)

\* C4 witness: a score of exactly 20 came back 'safe'
C4_Witness == scoreOut # NoScore /\ scoreOut.score = 20000 /\ scoreOut.category = "safe"

\* C5: while a sweep over several zones is in progress, the Map a reader gets
\* from getAllZoneScores holds the entries written by that sweep for none of
\* the zones it listed or for all of them, never for some only
C5_ReaderSeesNoPartialSweep ==
  \A r \in InProgress :
    LET seen == {z \in Listed(r) \cap DOMAIN getAllZoneScores : writer[z] = r}
    IN  seen = {} \/ seen = Listed(r)

\* C6: a sweep in which the reads of one zone failed has ended having computed
\* and written every other zone of its listing
C6_FailureSkipsOneZoneOnly ==
  \A r \in DOMAIN runs :
    (runs[r].pc = "done" /\ runs[r].failed /\ runs[r].idx >= 1)
      => Listed(r) \ {runs[r].zones[runs[r].idx].id} \subseteq Processed(r)

\* C7: every step of an invocation up to and including the failure of its zone
\* listing leaves scoreCache and lastCacheUpdate as they were, and the
\* invocation then ends resolved, not rejected
C7_FailedSweepKeepsCache ==
  [][\A r \in DOMAIN runs :
       (runs'[r] # runs[r] /\ runs[r].pc \in {"idle", "zones"}
          /\ (runs'[r].pc = "zones" \/ runs'[r].failed))
         => /\ scoreCache' = scoreCache
            /\ lastCacheUpdate' = lastCacheUpdate
            /\ runs'[r].result # "rejected"
            /\ runs'[r].failed => (runs'[r].pc = "done" /\ runs'[r].result = "resolved")]_vars

\* an invocation whose zone listing failed has ended resolved while the cache
\* still holds the entries and the stamp of an earlier sweep
C7_Witness ==
  \E r \in DOMAIN runs :
    /\ runs[r].pc = "done" /\ runs[r].failed /\ runs[r].idx = 0
    /\ runs[r].result = "resolved"
    /\ DOMAIN scoreCache = {"z1", "z2"}
    /\ lastCacheUpdate = StartTime

\* C8: at most one invocation of updateAllZoneScores is between its start and
\* its end at any time
C8_SweepsNeverInterleave == Cardinality(InProgress) <= 1

\* C9: when a sweep completes and another has completed before it, every zone
\* processed by both holds the entry written by the one completing now
C9_LastCompletedSweepWins ==
  [][\A r, e \in DOMAIN runs :
       (r # e /\ runs[r].pc = "inputs" /\ runs'[r].pc = "done" /\ ~runs'[r].failed
          /\ runs[e].pc = "done")
         => \A z \in Processed(e) \cap Listed(r) : writer'[z] = r]_vars

\* C10: when a sweep completes successfully, the zone ids in the cache are
\* exactly the zones that sweep listed
C10_CacheRebuiltBySweep ==
  [][\A r \in DOMAIN runs :
       (runs[r].pc \in {"zones", "inputs"} /\ runs'[r].pc = "done" /\ ~runs'[r].failed)
         => DOMAIN scoreCache' = {runs'[r].zones[i].id : i \in 1..Len(runs'[r].zones)}]_vars

\* C11: getZoneScore is a pure read of the cache: for an id some sweep has
\* written it returns the entry the cache holds for it, the most recently
\* written one, even when that entry is stale; for any other id it returns
\* null; and it leaves the cache and lastCacheUpdate as they were.
C11_GetZoneScoreIsPureRead ==
  [][scoreRead' # scoreRead =>
       /\ scoreRead'.result =
            IF scoreRead'.zoneId \in ZoneIds /\ writer[scoreRead'.zoneId] # 0
            THEN scoreCache[scoreRead'.zoneId] ELSE Null
       /\ scoreCache' = scoreCache
       /\ lastCacheUpdate' = lastCacheUpdate]_vars

\* a reader was handed the stale entry of a zone that a sweep completed since
\* did not list
C11_Witness ==
  /\ scoreRead.zoneId \in DOMAIN scoreCache
  /\ scoreRead.result = scoreCache[scoreRead.zoneId]
  /\ \E r \in DOMAIN runs :
       /\ runs[r].pc = "done" /\ ~runs[r].failed
       /\ writer[scoreRead.zoneId] < r
       /\ scoreRead.zoneId \notin Listed(r)

\* C12: at most one periodic recompute task is ever scheduled: after any
\* number of startAutoUpdate calls a single 5-minute timer drives the sweeps.
C12_SingleTimer == intervals <= 1

\* a sweep started after invocation r has completed without an error: the
\* cache holds an entry for every zone it listed and lastCacheUpdate is not
\* older than its last computation
RefreshedAfter(r) ==
  \E q \in DOMAIN runs :
    /\ q > r
    /\ runs[q].pc = "done" /\ ~runs[q].failed
    /\ Listed(q) \subseteq DOMAIN scoreCache
    /\ lastCacheUpdate >= runs[q].date

\* C13: after startAutoUpdate a failed sweep never stops the schedule: every
\* tick starts a sweep whatever the outcome of the earlier ones, and once the
\* data source works again a sweep started after the failed one refreshes the
\* cache and lastCacheUpdate, with no manual call.
C13_FailedSweepIsRetried ==
  /\ [][now' # now => Cardinality(Started') = Cardinality(Started) + intervals]_vars
  /\ \A r \in 1..MaxRuns : runs[r].failed ~> RefreshedAfter(r)

\* the initial sweep has failed, the next tick has started another one and
\* that one has refreshed the cache
C13_Witness ==
  /\ intervals = 1
  /\ runs[1].failed
  /\ RefreshedAfter(1)
  /\ lastCacheUpdate = now

\* C14: getSafetyZone(28.5, 94.0) returns zoneType 'restricted' with score 20:
\* the point lies within the 10 km buffer of a restricted border anchor.
C14_BorderExampleIsRestricted ==
  (zoneQuery = <<285000, 940000>> /\ zoneResult # NoResult) =>
    /\ zoneResult.zoneType = "restricted"
    /\ zoneResult.score = 20
    /\ AnchorsWithin(RESTRICTED_ZONES, 285000, 940000, 10) # {}

\* C15: getSafetyZone(26.1445, 91.7362), the Guwahati anchor, returns 'safe'
\* with score 90 and a reason that mentions Guwahati; no restricted anchor is
\* within 10 km of it, no forest anchor within 5 km, and Guwahati is the first
\* city within 20 km.
C15_GuwahatiIsSafe ==
  (zoneQuery = <<261445, 917362>> /\ zoneResult # NoResult) =>
    /\ zoneResult.zoneType = "safe"
    /\ zoneResult.score = 90
    /\ \E i \in DOMAIN zoneResult.reason : zoneResult.reason[i] = "Guwahati"
    /\ AnchorsWithin(RESTRICTED_ZONES, 261445, 917362, 10) = {}
    /\ AnchorsWithin(FOREST_ZONES, 261445, 917362, 5) = {}
    /\ NORTHEAST_CITIES[MinOfSet(AnchorsWithin(NORTHEAST_CITIES, 261445, 917362, 20))].name
         = "Guwahati"

\* getSafetyZone has returned for the Guwahati anchor
C15_Witness ==
  /\ zoneQuery = <<261445, 917362>>
  /\ zoneResult.zoneType = "safe"

\* C16: for every hour 0..23 and every score 0..100 adjustSafetyScoreForTime
\* returns max(score - 20, 0) when hour >= 22 or hour <= 6, max(score - 10, 0)
\* when hour is 7, 8, 19, 20 or 21, and the score otherwise; the result is
\* never negative and never above the input; (90, 23) gives 70, (90, 12) gives 90.
C16_TimeAdjustment ==
  (adjustIn \in TimeInputs /\ adjustOut # NoAdjust) =>
    LET score == adjustIn.baseScore
        hour  == adjustIn.hour
        out   == adjustOut.score
    IN  /\ out = IF hour >= 22 \/ hour <= 6 THEN Max(score - 20, 0)
                 ELSE IF hour \in {7, 8, 19, 20, 21} THEN Max(score - 10, 0)
                 ELSE score
        /\ out >= 0 /\ out <= score
        /\ (score = 90 /\ hour = 23) => out = 70
        /\ (score = 90 /\ hour = 12) => out = 90

\* the late-night example: 90 at 23:00 has become 70
C16_Witness ==
  /\ adjustIn = [fn |-> "time", baseScore |-> 90, hour |-> 23]
  /\ adjustOut = [score |-> 70]

\* a weather text, in lower case, holds a keyword of the tier
StormTier(weather) ==
  includes(weather, KwHeavyRain) \/ includes(weather, KwStorm) \/ includes(weather, KwCyclone)
SnowTier(weather) == includes(weather, KwSnow) \/ includes(weather, KwHail)
RainTier(weather) ==
  includes(weather, KwRain) \/ includes(weather, KwFog) \/ includes(weather, KwMist)

\* C17: adjustSafetyScoreForWeather matches keywords case-insensitively as
\* substrings and applies the penalty of the first matching tier, the tiers
\* being heavy rain/storm/cyclone (30), then snow/hail (25), then
\* rain/fog/mist (15); any other text leaves the score unchanged, and the
\* result is clamped to >= 0.
C17_WeatherTiers ==
  (adjustIn \in WeatherInputs /\ adjustOut # NoAdjust) =>
    LET score   == adjustIn.baseScore
        weather == toLowerCase(adjustIn.conditions)
    IN  adjustOut.score =
          IF StormTier(weather) THEN Max(score - 30, 0)
          ELSE IF SnowTier(weather) THEN Max(score - 25, 0)
          ELSE IF RainTier(weather) THEN Max(score - 15, 0)
          ELSE score

\* C18: getSafetyZone never throws for malformed coordinates, and invalid
\* coordinates, NaN as well as out-of-range numbers, are routed through the
\* bounds check to zoneType 'restricted' with score 0.
C18_InvalidCoordinatesAreRestricted ==
  LET lat == zoneQuery[1]
      lng == zoneQuery[2]
      invalid == \/ IsNaN(lat) \/ IsNaN(lng)
                 \/ (~IsNaN(lat) /\ (lat < -900000 \/ lat > 900000))
                 \/ (~IsNaN(lng) /\ (lng < -1800000 \/ lng > 1800000))
  IN  (invalid /\ zoneResult # NoResult) =>
        (zoneResult.zoneType = "restricted" /\ zoneResult.score = 0)

HalfLife ==
  IF decayIn.fn = "time" THEN SCORING_CONFIG.decay.timeDecayHours * 1000
  ELSE SCORING_CONFIG.decay.spatialDecayKm * 1000

\* C20: applyTimeDecay and applySpatialDecay are non-increasing in the elapsed
\* hours / the distance for a fixed non-negative value, never amplify (the
\* result is at most the value, and equal to it at 0), and halve the value at
\* exactly one half-life (24 hours, 5 km).
C20_DecayMonotoneAndHalving ==
  decayOut # NoDecay =>
    /\ decayOut.later <= decayOut.value
    /\ decayOut.value <= decayIn.value
    /\ decayOut.value >= 0
    /\ decayIn.x = 0 => decayOut.value = decayIn.value
    /\ decayIn.x = HalfLife => decayOut.value = decayIn.value \div 2

\* the spatial decay of 1.0 at 5 km, where it is 0.5, and at 10 km, where it
\* is smaller
C20_Witness ==
  /\ decayIn = [fn |-> "spatial", value |-> 1000, x |-> 5000, later |-> 10000]
  /\ decayOut.value = 500
  /\ decayOut.later < decayOut.value

\* C21: for any zone type and hour, with exactly one active critical alert
\* 1 km from the zone anchor raised one hour earlier and no other signal (no
\* news, no police station, no tracked location), the score of the zone is
\* strictly greater than its score with no alert at all.
C21_AlertRaisesScore ==
  probeOut.fn = "alert" =>
    /\ probeOut.with.score > probeOut.without.score
    /\ probeOut.with.factors.incidents > 0
    /\ probeOut.without.factors.incidents = 0

\* a safe zone scored at noon with the alert and without it
C21_Witness ==
  /\ probeIn = [fn |-> "alert", zoneType |-> "safe", hour |-> 12, anchor |-> <<261445, 917362>>]
  /\ probeOut.fn = "alert"
  /\ probeOut.with.score > probeOut.without.score

Indicator(b) == IF b THEN 1000 ELSE 0

\* C23: the confidence returned by computeScore is
\* min(1, 0.5 + 0.20 [incidents > 0] + 0.15 [news > 0] + 0.15 [policeDistance < 50]
\* + 0.10 [density > 0]); it is at least 0.5; and when there is no police
\* station, so that the distance is the sentinel 50 km, the police bonus is
\* not added and the policeProximity factor is 0.
C23_ConfidenceFormula ==
  scoreOut # NoScore =>
    LET sum == 500000 + 200 * Indicator(scoreIn.incidents > 0)
                      + 150 * Indicator(scoreIn.newsAlerts > 0)
                      + 150 * Indicator(scoreIn.policeDistance < 50000)
                      + 100 * Indicator(scoreIn.touristDensity > 0)
        withoutPolice == 500000 + 200 * Indicator(scoreIn.incidents > 0)
                                + 150 * Indicator(scoreIn.newsAlerts > 0)
                                + 100 * Indicator(scoreIn.touristDensity > 0)
    IN  /\ scoreOut.confidence * 1000 = Min(1000000, sum)
        /\ scoreOut.confidence >= 500
        /\ calculateSafetyInputs(QuietContent, 261445, 917362, 0, 0).policeDistance = 50000
        /\ scoreIn.policeDistance = 50000 =>
             /\ scoreOut.confidence * 1000 = withoutPolice
             /\ scoreOut.factors.policeProximity = 0

\* an input with incidents and tourists and the sentinel distance: confidence
\* 0.8 and no police proximity
C23_Witness ==
  /\ scoreIn.incidents > 0 /\ scoreIn.newsAlerts = 0 /\ scoreIn.touristDensity > 0
  /\ scoreIn.policeDistance = 50000
  /\ scoreOut # NoScore
  /\ scoreOut.confidence = 800 /\ scoreOut.factors.policeProximity = 0

(***************************************************************************)
(* getTimeRisk at every hour of the day                                    *)
(***************************************************************************)

\* minutes of the hour at which the risk is asked
ProbeMinutes == {0, 1, 15, 30, 59}

TimeRiskInputs == [fn : {"timeRisk"}, hour : 0..23, minute : ProbeMinutes]

\* getTimeRisk(date) for a date of the given hour and minute
TimeRiskCall ==
  /\ probeIn \in TimeRiskInputs
  /\ probeOut = NoProbe
  /\ probeOut' = [fn |-> "timeRisk", risk |-> getTimeRisk(ProbeDate(probeIn.hour) + probeIn.minute)]
  /\ UNCHANGED <<probeIn, zoneVars, zoneLog, scoreVars, adjustVars, decayVars, serviceVars,
                 scoreRead, routeVars>>

InitTimeRisk ==
  /\ probeIn \in TimeRiskInputs /\ probeOut = NoProbe
  /\ ZoneIdle /\ ScoreIdle /\ ServiceIdle /\ RouteIdle /\ ReadIdle /\ LogIdle
  /\ AdjustIdle /\ DecayIdle

NextTimeRisk == TimeRiskCall

SpecTimeRisk == InitTimeRisk /\ [][NextTimeRisk]_vars

LateNightHours == {22, 23} \cup 0..5
TransitionalHours == 18..21 \cup {6, 7}
DayHours == 8..17

\* C24: getTimeRisk is 0.7 in the hours 22, 23 and 0 to 5, 0.4 in the hours
\* 18 to 21, 6 and 7, and 0.2 in every other hour; the three sets of hours
\* are disjoint and cover the 24 hours of the day.
C24_TimeRiskBuckets ==
  /\ LateNightHours \cap TransitionalHours = {}
  /\ LateNightHours \cap DayHours = {}
  /\ TransitionalHours \cap DayHours = {}
  /\ LateNightHours \cup TransitionalHours \cup DayHours = 0..23
  /\ probeOut.fn = "timeRisk" =>
       /\ probeIn.hour \in LateNightHours => probeOut.risk = 700
       /\ probeIn.hour \in TransitionalHours => probeOut.risk = 400
       /\ probeIn.hour \in DayHours => probeOut.risk = 200

\* the risk asked at 06:59, in the morning transition
C24_Witness ==
  /\ probeIn \in TimeRiskInputs /\ probeIn.hour = 6 /\ probeIn.minute = 59
  /\ probeOut.fn = "timeRisk" /\ probeOut.risk = 400

\* the zoneType and score pairs the classification documents
ZonePairs ==
  {<<"restricted", 0>>, <<"restricted", 20>>, <<"forest", 60>>, <<"safe", 90>>,
   <<"moderate", 70>>, <<"unsafe", 40>>}

\* C25: for every coordinate getSafetyZone returns one of the pairs
\* (restricted, 0), (restricted, 20), (forest, 60), (safe, 90), (moderate, 70),
\* (unsafe, 40), with a reason that is not the empty string.
C25_ResultPairs ==
  zoneResult # NoResult =>
    /\ <<zoneResult.zoneType, zoneResult.score>> \in ZonePairs
    /\ \E i \in DOMAIN zoneResult.reason : zoneResult.reason[i] # ""

\* a coordinate in the buffer of a forest anchor and of no border anchor
C25_Witness ==
  /\ zoneResult # NoResult
  /\ zoneResult.zoneType = "forest" /\ zoneResult.score = 60
  /\ Len(zoneResult.reason) = 4 /\ zoneResult.reason[2] # ""

(***************************************************************************)
(* The entry a sweep computes for a zone, for any signals around it         *)
(***************************************************************************)

\* signals as calculateSafetyInputs can return them: none, the top of the
\* normalisation range, and far beyond it
BoundSignals ==
  [incidents : {0, 5000, Extreme}, newsAlerts : {0, Extreme},
   policeDistance : {0, 50 * 1000}, touristDensity : {0, Extreme}]

BoundInputs == [fn : {"bound"}, zoneType : ZoneTypes, hour : 0..23, signals : BoundSignals]

\* the body of the loop of updateAllZoneScores for one zone: the terrain risk
\* of its type, the time risk of the hour, computeScore
BoundScoreCall ==
  /\ probeIn \in BoundInputs
  /\ probeOut = NoProbe
  /\ \E date \in {ProbeDate(probeIn.hour)} :
     \E inputs \in {[incidents      |-> probeIn.signals.incidents,
                     newsAlerts     |-> probeIn.signals.newsAlerts,
                     policeDistance |-> probeIn.signals.policeDistance,
                     touristDensity |-> probeIn.signals.touristDensity,
                     terrainRisk    |-> 0,
                     timeRisk       |-> getTimeRisk(date)]} :
       probeOut' = [fn |-> "bound",
                    entry |-> ZoneScore([zoneType |-> probeIn.zoneType], inputs, date)]
  /\ UNCHANGED <<probeIn, zoneVars, zoneLog, scoreVars, adjustVars, decayVars, serviceVars,
                 scoreRead, routeVars>>

InitBound ==
  /\ probeIn \in BoundInputs /\ probeOut = NoProbe
  /\ ZoneIdle /\ ScoreIdle /\ ServiceIdle /\ RouteIdle /\ ReadIdle /\ LogIdle
  /\ AdjustIdle /\ DecayIdle

NextBound == BoundScoreCall

SpecBound == InitBound /\ [][NextBound]_vars

\* C26: the entry a sweep computes for a zone has a score of at most 77.5:
\* the weights that are added sum to 0.8, the terrain risk is at most 0.9 and
\* the time risk at most 0.7, so the score stays below the clamp at 100.
C26_SweepScoreBound ==
  LET w == SCORING_CONFIG.weights
  IN  /\ w.incidents + w.news + w.terrain + w.timeOfDay + w.density = 800
      /\ probeOut.fn = "bound" =>
           /\ probeOut.entry.factors.terrain <= 900
           /\ probeOut.entry.factors.timeOfDay <= 700
           /\ probeOut.entry.score <= 77500
           /\ probeOut.entry.score < 100 * 1000

\* an unsafe zone at night with every signal beyond its range and no police
\* station: the bound is attained
C26_Witness ==
  /\ probeIn \in BoundInputs /\ probeIn.zoneType = "unsafe" /\ probeIn.hour = 23
  /\ probeIn.signals.policeDistance = 50 * 1000
  /\ probeOut.fn = "bound" /\ probeOut.entry.score = 77500

\* C27: lastCacheUpdate changes only in the last step of a sweep that
\* processed every zone of its listing without error, and becomes the time of
\* that step; the step in which a sweep fails leaves lastCacheUpdate and
\* shouldUpdateScores as they were, whatever the sweep has written before;
\* shouldUpdateScores is true while no sweep has ever completed.
C27_StampOnlyAfterFullSweep ==
  [][/\ lastCacheUpdate' # lastCacheUpdate =>
          \E r \in DOMAIN runs :
            /\ runs[r].pc \notin {"idle", "done"} /\ runs'[r].pc = "done"
            /\ ~runs'[r].failed
            /\ {runs'[r].zones[i].id : i \in 1..(runs'[r].idx - 1)}
                 = {runs'[r].zones[i].id : i \in 1..Len(runs'[r].zones)}
            /\ lastCacheUpdate' = now'
     /\ \A r \in DOMAIN runs :
          (~runs[r].failed /\ runs'[r].failed) =>
            /\ lastCacheUpdate' = lastCacheUpdate
            /\ (lastCacheUpdate' < now' - 5) = shouldUpdateScores
     /\ lastCacheUpdate = 0 => shouldUpdateScores]_vars

\* a sweep failed at its second zone after it had overwritten the entry of
\* the first: the entry is newer than lastCacheUpdate, which still is the
\* stamp of the construction, and shouldUpdateScores is true
C27_Witness ==
  \E r \in DOMAIN runs :
    /\ runs[r].pc = "done" /\ runs[r].failed /\ runs[r].idx = 2
    /\ writer[runs[r].zones[1].id] = r
    /\ runs[r].zones[1].id \in DOMAIN scoreCache
    /\ scoreCache[runs[r].zones[1].id].lastUpdated > lastCacheUpdate
    /\ lastCacheUpdate = 0
    /\ shouldUpdateScores

\* a zone whose coordinates give updateAllZoneScores no centre and no
\* latitude and longitude that are truthy
Unanchored(zone) ==
  /\ "center" \notin DOMAIN zone.coordinates
  /\ ~("lat" \in DOMAIN zone.coordinates /\ "lng" \in DOMAIN zone.coordinates
        /\ zone.coordinates.lat # 0 /\ zone.coordinates.lng # 0)

\* C28: a zone without centre and without truthy lat and lng is scored at the
\* default anchor (26.1445, 91.7362), and two such zones of the same zoneType
\* written by one sweep while the data did not change have the same score,
\* factors and category.
C28_UnanchoredZonesAgree ==
  \A r \in DOMAIN runs :
    (runs[r].pc = "done" /\ ~runs[r].failed /\ db = 1) =>
      \A i, j \in DOMAIN runs[r].zones :
        LET zi == runs[r].zones[i]
            zj == runs[r].zones[j]
        IN  (Unanchored(zi) /\ Unanchored(zj) /\ zi.zoneType = zj.zoneType
               /\ writer[zi.id] = r /\ writer[zj.id] = r) =>
              /\ ZoneAnchor(zi) = <<261445, 917362>>
              /\ ZoneAnchor(zj) = <<261445, 917362>>
              /\ scoreCache[zi.id].score = scoreCache[zj.id].score
              /\ scoreCache[zi.id].factors = scoreCache[zj.id].factors
              /\ scoreCache[zi.id].category = scoreCache[zj.id].category

\* panic alerts raised, handled on the dashboard and auto-resolved by their timers
InitPanic ==
  ZoneIdle /\ ScoreIdle /\ ServiceIdle /\ RouteIdle /\ ProbeIdle /\ ReadIdle /\ LogIdle
  /\ AdjustIdle /\ DecayIdle

NextPanic ==
  \/ \E r \in Reports : CreatePanicAlert(r[1], r[2])
  \/ \E a \in AlertIds : AlertCreated(a)
  \/ \E a \in AlertIds : TimerRead(a)
  \/ \E a \in AlertIds : TimerUpdate(a)
  \/ \E a \in AlertIds, u \in Users, status \in DashboardStatuses : DashboardUpdate(a, u, status)

SpecPanic == InitPanic /\ [][NextPanic]_vars

\* C29: an alert becomes auto-resolved only in the update of its timer
\* callback; an alert the police have set to responded or resolved is never
\* overwritten to auto-resolved, whatever the interleaving of the callback's
\* read and update with the dashboard's update; and the update of a callback
\* that found the alert active leaves it auto-resolved.
C29_AutoResolveOnlyIfUnhandled ==
  [][\A a \in AlertIds :
       /\ (alerts'[a].status = "auto-resolved" /\ alerts[a].status # "auto-resolved")
            => (timers[a].pc = "read" /\ timers'[a].pc = "done")
       /\ alerts[a].status \in {"responded", "resolved"}
            => alerts'[a].status # "auto-resolved"
       /\ (timers[a].pc = "read" /\ timers'[a].pc = "done" /\ alerts[a].status = "active")
            => alerts'[a].status = "auto-resolved"]_vars

\* WebSocket clients connecting, authenticating and leaving while alerts and
\* location updates are broadcast
InitSockets ==
  ZoneIdle /\ ScoreIdle /\ ServiceIdle /\ RouteIdle /\ ProbeIdle /\ ReadIdle /\ LogIdle
  /\ AdjustIdle /\ DecayIdle

NextSockets ==
  \/ \E cred \in Credentials : Connect(cred)
  \/ \E c \in ClientIds, ok \in BOOLEAN : SessionRead(c, ok)
  \/ \E c \in ClientIds, ok \in BOOLEAN : UserRead(c, ok)
  \/ \E c \in ClientIds : Disconnect(c)
  \/ \E r \in Reports : CreatePanicAlert(r[1], r[2])
  \/ \E a \in AlertIds : AlertCreated(a)
  \/ \E r \in Reports : UpdateLocation(r[1], r[2])

SpecSockets == InitSockets /\ [][NextSockets]_vars

\* what identifies a tourist
PersonalData ==
  UNION {{TouristRows[t].id, TouristRows[t].fullName, TouristRows[t].digitalId,
          TouristRows[t].phoneNumber, TouristRows[t].emergencyContact} : t \in Tourists}

\* the positions of the hundredth-degree cell of an alert
SameCell(alert) ==
  {p \in Positions : /\ ReducedPrecision(p[1]) = ReducedPrecision(alert.latitude)
                     /\ ReducedPrecision(p[2]) = ReducedPrecision(alert.longitude)}

\* the message shows nothing of the tourist and of the position inside the
\* cell: it has no tourist part, none of its fields holds personal data, and
\* it is the message any tourist at any position of the cell would have caused
Sanitized(m, row) ==
  /\ m.type = "emergencyAlert"
  /\ DOMAIN m.data = {"alert", "emergency"}
  /\ DOMAIN m.data.alert = {"id", "latitude", "longitude", "address", "status"}
  /\ {m.data.alert.address, m.data.alert.status} \cap PersonalData = {}
  /\ {m.data.emergency[f] : f \in DOMAIN m.data.emergency} \cap PersonalData = {}
  /\ m.data.alert.latitude = ReducedPrecision(row.latitude)
  /\ m.data.alert.longitude = ReducedPrecision(row.longitude)
  /\ \A t \in Tourists, p \in SameCell(row) :
       m = publicEmergencyData(m.data.alert.id,
             [status |-> "active", respondedBy |-> "none", touristId |-> t,
              latitude |-> p[1], longitude |-> p[2]])

=============================================================================
